---- MODULE Spec2Model ----
(***************************************************************************)
(* Fault-matching and scoring engine of the evaluation scripts:           *)
(*   generate_evaluation.py       match_errors_both (per file, sorted)    *)
(*   evaluate_llm_code_review.py  match_errors_both (flat, input order)   *)
(*   generate_evaluation_v3.py    evaluate_fault_detection,               *)
(*                                match_errors_localization,              *)
(*                                match_errors_adaptive_smooth_iou        *)
(*   all three                    lines_overlap, strict_match,            *)
(*                                calculate_iou, adaptive_iou_threshold,  *)
(*                                calculate_metrics, main (aggregation)   *)
(*   docs/experiment/scripts/run_evaluation.py   main (scoring)           *)
(* Indices are 1-based here; Python's list index i is i+1.                *)
(* A finding is identified by its position in det_errors (the Python      *)
(* object identity of the DetectedError); result entries carry it in the  *)
(* field "det" next to the fields the code writes.                        *)
(***************************************************************************)
EXTENDS Integers, Sequences, FiniteSets, TLC

VARIABLES
    script,            \* which script's matching code runs
    gt_errors,         \* input: the ground truth list
    det_errors,        \* input: the findings list
    tolerance,         \* input: --tolerance
    pc,                \* position in the running function
    files_left,        \* filenames the per-file loop has not visited yet
    current_det,       \* findings being iterated (positions in det_errors)
    idx,               \* position of the loop in current_det
    remaining_old,     \* unmatched ground truth, classic metric
    remaining_strict,  \* unmatched ground truth, strict metric
    classic,           \* classic ("old") result [tp, fp, fn]
    strict,            \* strict result [tp, fp, fn]
    detection,         \* evaluate_fault_detection's result [tp, fp, fn]
    used,              \* used_gt_ids / matched_gt_keys / globally_matched_gt
    fixed_results,     \* threshold -> [tp, fp, fn]
    adaptive,          \* adaptive result [tp, fp, fn]
    call,              \* a single call of a function: its name and arguments
    ret,               \* what that call returned or raised
    result_files,      \* main: the runs not yet processed (their categories)
    processed,         \* main: the runs processed so far, with their counts
    agg,               \* main: the accumulators, by name as in the source
    results,           \* main: the rows of the final table
    best,              \* evaluate_tp_fp_fn_best_match.py: the locals of one run of the greedy matching
    disk,              \* 2_run_differential_testing.py: the directories the script reads and writes
    locals             \* 2_run_differential_testing.py: the locals of main

inputs == <<script, gt_errors, det_errors, tolerance>>
v3vars == <<detection, used, fixed_results, adaptive>>
callvars == <<call, ret>>
mainvars == <<result_files, processed, agg, results>>
othervars == <<best, disk, locals>>
matchvars == <<files_left, current_det, idx, remaining_old, remaining_strict,
               classic, strict>>
vars == <<script, gt_errors, det_errors, tolerance, pc, files_left, current_det,
          idx, remaining_old, remaining_strict, classic, strict,
          detection, used, fixed_results, adaptive,
          call, ret, result_files, processed, agg, results, best, disk, locals>>

-----------------------------------------------------------------------------
(* Bounds of the model *)
MaxLine == 3
MaxGT == 2
MaxDet == 2
MaxTol == 1

FileNames == {"A", "B"}

\* --tolerance
Tolerances == 0..MaxTol

Ranges == {r \in (1..MaxLine) \X (1..MaxLine) : r[1] <= r[2]}

\* the ids of the ground truth table, in row order
GtId(i) == <<"E001", "E002", "E003", "E004">>[i]

GroundTruthError(i, f, r) ==
    [id |-> GtId(i), filename |-> f, start_line |-> r[1], end_line |-> r[2]]

DetectedError(f, r, d) ==
    [filename |-> f, start_line |-> r[1], end_line |-> r[2], detected_id |-> d]

\* ground truth lists with unique ids (the id column of the ground truth table).
\* Filenames are only compared for equality, so the first defect's file is "A".
GtLists ==
    UNION {{[i \in 1..n |-> GroundTruthError(i, fs[i], rs[i])] :
              fs \in {g \in [1..n -> FileNames] : n = 0 \/ g[1] = "A"},
              rs \in [1..n -> Ranges]} : n \in 0..MaxGT}

\* findings of the scripts without claimed ids (detected_id is not a field there)
DetLists ==
    UNION {{[i \in 1..n |-> DetectedError(fs[i], rs[i], "FP")] :
              fs \in [1..n -> FileNames], rs \in [1..n -> Ranges]} : n \in 0..MaxDet}

\* load_verified_detections: a claimed id or "FP"; an id past the last row of a
\* shorter ground truth is an id absent from it
ClaimedIds == {"FP"} \cup {GtId(i) : i \in 1..MaxGT}

VerifiedDetLists ==
    UNION {{[i \in 1..n |-> DetectedError(fs[i], rs[i], ds[i])] :
              fs \in [1..n -> FileNames], rs \in [1..n -> Ranges],
              ds \in [1..n -> ClaimedIds]} : n \in 0..MaxDet}

-----------------------------------------------------------------------------
(* Helpers *)
Max(a, b) == IF a >= b THEN a ELSE b
Min(a, b) == IF a <= b THEN a ELSE b

\* list.pop(i)
Pop(s, i) == SubSeq(s, 1, i - 1) \o SubSeq(s, i + 1, Len(s))

EmptyResult == [tp |-> <<>>, fp |-> <<>>, fn |-> <<>>]

-----------------------------------------------------------------------------
(* Geometry *)

lines_overlap(gt_start, gt_end, det_start, det_end, tol) ==
    ~ ((gt_end + tol) < (det_start - tol) \/ (det_end + tol) < (gt_start - tol))

strict_match_SizeAnd(gt, det, tol0) ==
    LET gt_size == gt.end_line - gt.start_line + 1
        tol == IF gt_size = 1 THEN Max(tol0, 2) ELSE tol0
        iou_threshold == IF gt_size = 1 THEN Max(30, 15) ELSE 30
        gs == Max(1, gt.start_line - tol)
        ge == gt.end_line + tol
        ds == det.start_line
        de == det.end_line
        overlap == Min(ge, de) - Max(gs, ds) + 1
        union == Max(ge, de) - Min(gs, ds) + 1
        det_size == de - ds + 1
    IN  IF gt.filename # det.filename THEN FALSE
        ELSE IF de < gs \/ ds > ge THEN FALSE
        ELSE IF (IF union > 0 THEN overlap * 100 < iou_threshold * union
                              ELSE 0 < iou_threshold) THEN FALSE
        ELSE IF det_size <= 0 THEN FALSE
        ELSE IF det_size > 40 /\ det_size > Max(8, gt_size * 6) THEN FALSE
        ELSE TRUE

\* generate_evaluation.py: thresholds as percentages, iou = overlap/union is
\* compared by cross-multiplication (exact on these small integers)
strict_match(gt, det, tol0) ==
    LET gt_size == gt.end_line - gt.start_line + 1
        tol == IF gt_size = 1 THEN Max(tol0, 2) ELSE tol0
        iou_threshold == IF gt_size = 1 THEN Max(30, 15) ELSE 30
        gs == Max(1, gt.start_line - tol)
        ge == gt.end_line + tol
        ds == det.start_line
        de == det.end_line
        overlap == Min(ge, de) - Max(gs, ds) + 1
        union == Max(ge, de) - Min(gs, ds) + 1
        det_size == de - ds + 1
    IN  IF gt.filename # det.filename THEN FALSE
        ELSE IF de < gs \/ ds > ge THEN FALSE
        ELSE IF (IF union > 0 THEN overlap * 100 < iou_threshold * union
                              ELSE 0 < iou_threshold) THEN FALSE
        ELSE IF det_size <= 0 THEN FALSE
        ELSE IF det_size > 40 \/ det_size > Max(8, gt_size * 6) THEN FALSE
        ELSE TRUE

\* evaluate_llm_code_review.py
strict_match_review(gt, det, tol) ==
    LET gs == gt.start_line - tol
        ge == gt.end_line + tol
        ds == det.start_line
        de == det.end_line
        overlap == Min(ge, de) - Max(gs, ds) + 1
        union == Max(ge, de) - Min(gs, ds) + 1
        gt_size == gt.end_line - gt.start_line + 1
        det_size == de - ds + 1
    IN  IF gt.filename # det.filename THEN FALSE
        ELSE IF de < gs \/ ds > ge THEN FALSE
        ELSE IF det_size > 40 \/ det_size > Max(8, gt_size * 6) THEN FALSE
        ELSE IF union > 0 THEN overlap * 100 >= 30 * union ELSE FALSE

-----------------------------------------------------------------------------
(* Result entries *)

\* the dict appended to tp_old_all
TpEntry(gt, d) ==
    [gt_id |-> gt.id, filename |-> gt.filename,
     gt_lines |-> <<gt.start_line, gt.end_line>>,
     det_lines |-> <<det_errors[d].start_line, det_errors[d].end_line>>,
     det |-> d]

StrictTpEntry_GtLines(gt, d) ==
    [gt_id |-> gt.id, filename |-> gt.filename,
     gt_lines |-> <<gt.start_line, gt.end_line>>,
     det_lines |-> <<gt.start_line, gt.end_line>>,
     det |-> d]

\* the dict appended to tp_strict_all, written out a second time in the code
StrictTpEntry(gt, d) ==
    [gt_id |-> gt.id, filename |-> gt.filename,
     gt_lines |-> <<gt.start_line, gt.end_line>>,
     det_lines |-> <<det_errors[d].start_line, det_errors[d].end_line>>,
     det |-> d]

FpEntry(d) ==
    [filename |-> det_errors[d].filename,
     det_lines |-> <<det_errors[d].start_line, det_errors[d].end_line>>,
     det |-> d]

FnEntry(gt) ==
    [gt_id |-> gt.id, filename |-> gt.filename,
     gt_lines |-> <<gt.start_line, gt.end_line>>]

FnEntries(rem) == [i \in 1..Len(rem) |-> FnEntry(rem[i])]

\* the positions 1..n of a list
Positions(s) == [i \in 1..Len(s) |-> i]

-----------------------------------------------------------------------------
(* generate_evaluation.py: match_errors_both *)

gt_by_file(f) == SelectSeq(gt_errors, LAMBDA g : g.filename = f)

\* positions of the findings of file f, in input order
det_by_file(f) ==
    SelectSeq([i \in 1..Len(det_errors) |-> i], LAMBDA i : det_errors[i].filename = f)

\* sorted(current_det, key=lambda x: x.start_line): stable insertion sort
RECURSIVE Insert(_, _)
Insert(s, d) ==
    IF s = <<>> THEN <<d>>
    ELSE IF det_errors[Head(s)].start_line <= det_errors[d].start_line
         THEN <<Head(s)>> \o Insert(Tail(s), d)
         ELSE <<d>> \o s

RECURSIVE SortedByStart_InputOrder(_)
SortedByStart_InputOrder(s) == s

RECURSIVE SortedByStart(_)
SortedByStart(s) ==
    IF s = <<>> THEN <<>>
    ELSE Insert(SortedByStart(SubSeq(s, 1, Len(s) - 1)), s[Len(s)])

AllFiles_DetOnly == {det_errors[i].filename : i \in 1..Len(det_errors)}

\* set(gt_by_file.keys()) | set(det_by_file.keys())
AllFiles ==
    {gt_errors[i].filename : i \in 1..Len(gt_errors)} \cup
    {det_errors[i].filename : i \in 1..Len(det_errors)}

RECURSIVE ScanBackward_Unchecked(_, _, _)
ScanBackward_Unchecked(rem, i, d) == i

\* for i in range(len(remaining_old) - 1, -1, -1): ... if old_ok: ... break
\* the position of the last remaining defect with old_ok, 0 when none
RECURSIVE ScanBackward(_, _, _)
ScanBackward(rem, i, d) ==
    IF i = 0 THEN 0
    ELSE IF lines_overlap(rem[i].start_line, rem[i].end_line,
                          det_errors[d].start_line, det_errors[d].end_line, tolerance)
         THEN i
         ELSE ScanBackward(rem, i - 1, d)

\* remaining_strict.pop(i), i being the position found in remaining_old
PopStrict(rem_strict, i) == Pop(rem_strict, i)

PopOld_Kept(rem_old, i) == rem_old

\* remaining_old.pop(gt_matched_idx)
PopOld(rem_old, i) == Pop(rem_old, i)


\* tp_old_all.append(...) when matched_old, fp_old_all.append(...) otherwise
ClassicAfter(res, matched_old, gt, d) ==
    IF matched_old THEN [res EXCEPT !.tp = Append(@, TpEntry(gt, d))]
    ELSE [res EXCEPT !.fp = Append(@, FpEntry(d))]

StrictAfter_Dropped(res, matched_old, matched_strict, gt, d) ==
    IF matched_strict THEN [res EXCEPT !.tp = Append(@, StrictTpEntry(gt, d))]
    ELSE IF matched_old THEN res
    ELSE [res EXCEPT !.fp = Append(@, FpEntry(d))]

\* tp_strict_all.append(...) when matched_strict, fp_strict_all.append(...) otherwise,
\* also for a classic TP that failed the strict criteria
StrictAfter(res, matched_old, matched_strict, gt, d) ==
    IF matched_strict THEN [res EXCEPT !.tp = Append(@, StrictTpEntry(gt, d))]
    ELSE [res EXCEPT !.fp = Append(@, FpEntry(d))]

\* for filename in set(gt_by_file.keys()) | set(det_by_file.keys()):
\* the set is visited in an order the code does not fix
BothStartFile ==
    /\ script = "generate_evaluation"
    /\ pc = "files"
    /\ \E f \in files_left :
         /\ files_left' = files_left \ {f}
         /\ current_det' = SortedByStart(det_by_file(f))
         /\ remaining_old' = gt_by_file(f)
         /\ remaining_strict' = gt_by_file(f)
    /\ idx' = 1
    /\ pc' = "dets"
    /\ UNCHANGED <<othervars, inputs, callvars, mainvars, classic, strict, v3vars>>

\* for det in current_det: one pass of the loop body
BothDet ==
    /\ script = "generate_evaluation"
    /\ pc = "dets"
    /\ idx <= Len(current_det)
    /\ LET d == current_det[idx]
           i == ScanBackward(remaining_old, Len(remaining_old), d)
           matched_old == i > 0
           gt == remaining_old[i]
           matched_strict == matched_old /\ strict_match(gt, det_errors[d], tolerance)
       IN  /\ classic' = ClassicAfter(classic, matched_old, gt, d)
           /\ strict' = StrictAfter(strict, matched_old, matched_strict, gt, d)
           /\ remaining_strict' = IF matched_strict THEN PopStrict(remaining_strict, i)
                                  ELSE remaining_strict
           /\ remaining_old' = IF matched_old THEN PopOld(remaining_old, i)
                               ELSE remaining_old
    /\ idx' = idx + 1
    /\ UNCHANGED <<othervars, inputs, callvars, mainvars, pc, files_left, current_det, v3vars>>

\* the two "False negatives" loops that end a file; the return after the last file
BothEndFile ==
    /\ script = "generate_evaluation"
    /\ pc = "dets"
    /\ idx > Len(current_det)
    /\ classic' = [classic EXCEPT !.fn = @ \o FnEntries(remaining_old)]
    /\ strict' = [strict EXCEPT !.fn = @ \o FnEntries(remaining_strict)]
    /\ pc' = IF files_left = {} THEN "done" ELSE "files"
    /\ UNCHANGED <<othervars, inputs, callvars, mainvars, files_left, current_det, idx, remaining_old,
                   remaining_strict, v3vars>>

-----------------------------------------------------------------------------
(* evaluate_llm_code_review.py: match_errors_both *)

ArgumentAfterPop_Alias(arg, i) == Pop(arg, i)

\* remaining_old = gt_errors.copy(): a pop from the copy leaves the caller's
\* list gt_errors as it is
ArgumentAfterPop(arg, i) == arg

RECURSIVE ScanBackwardReview(_, _, _)
ScanBackwardReview(rem, i, d) ==
    IF i = 0 THEN 0
    ELSE IF /\ rem[i].filename = det_errors[d].filename
            /\ lines_overlap(rem[i].start_line, rem[i].end_line,
                             det_errors[d].start_line, det_errors[d].end_line, tolerance)
         THEN i
         ELSE ScanBackwardReview(rem, i - 1, d)

\* for det in det_errors: one pass of the loop body
ReviewDet ==
    /\ script = "evaluate_llm_code_review"
    /\ pc = "dets"
    /\ idx <= Len(current_det)
    /\ LET d == current_det[idx]
           i == ScanBackwardReview(remaining_old, Len(remaining_old), d)
           matched_old == i > 0
           gt == remaining_old[i]
           matched_strict == matched_old
                             /\ strict_match_review(gt, det_errors[d], tolerance)
       IN  /\ classic' = ClassicAfter(classic, matched_old, gt, d)
           /\ strict' = StrictAfter(strict, matched_old, matched_strict, gt, d)
           /\ remaining_strict' = IF matched_strict THEN PopStrict(remaining_strict, i)
                                  ELSE remaining_strict
           /\ remaining_old' = IF matched_old THEN PopOld(remaining_old, i)
                               ELSE remaining_old
           /\ gt_errors' = IF matched_old THEN ArgumentAfterPop(gt_errors, i) ELSE gt_errors
    /\ idx' = idx + 1
    /\ UNCHANGED <<othervars, script, det_errors, tolerance, callvars, mainvars, pc, files_left,
                   current_det, v3vars>>

\* fn_old = [...], fn_strict = [...]; return
ReviewReturn ==
    /\ script = "evaluate_llm_code_review"
    /\ pc = "dets"
    /\ idx > Len(current_det)
    /\ classic' = [classic EXCEPT !.fn = FnEntries(remaining_old)]
    /\ strict' = [strict EXCEPT !.fn = FnEntries(remaining_strict)]
    /\ pc' = "done"
    /\ UNCHANGED <<othervars, inputs, callvars, mainvars, files_left, current_det, idx, remaining_old,
                   remaining_strict, v3vars>>

-----------------------------------------------------------------------------
(* generate_evaluation_v3.py: geometry *)

\* math.log10(n) in units of 10^-6, rounded down
Log10Micro(n) ==
    <<0, 301029, 477121, 602059, 698970, 778151, 845098, 903089, 954242,
      1000000, 1041392, 1079181, 1113943, 1146128, 1176091, 1204119, 1230448,
      1255272, 1278753, 1301029, 1322219, 1342422, 1361727, 1380211, 1397940,
      1414973, 1431363, 1447158, 1462397, 1477121, 1491361, 1505149>>[n]

calculate_iou_GtUnion(gt_start, gt_end, det_start, det_end) ==
    LET o_start == Max(gt_start, det_start)
        o_end == Min(gt_end, det_end)
        overlap == o_end - o_start + 1
        union == gt_end - gt_start + 1
    IN  IF o_start > o_end THEN <<0, 1>>
        ELSE IF union > 0 THEN <<overlap, union>> ELSE <<0, 1>>

\* an IoU is kept as the fraction <<overlap, union>>
calculate_iou(gt_start, gt_end, det_start, det_end) ==
    LET o_start == Max(gt_start, det_start)
        o_end == Min(gt_end, det_end)
        overlap == o_end - o_start + 1
        union == Max(gt_end, det_end) - Min(gt_start, det_start) + 1
    IN  IF o_start > o_end THEN <<0, 1>>
        ELSE IF union > 0 THEN <<overlap, union>> ELSE <<0, 1>>

\* iou >= m / 10^6
IouAtLeastMicro(iou, m) == iou[1] * 1000000 >= m * iou[2]

\* iou >= th / 100
IouAtLeastPercent(iou, th) == iou[1] * 100 >= th * iou[2]

\* iou_a > iou_b
IouGreater(a, b) == a[1] * b[2] > b[1] * a[2]

strict_match_v3_SingleLineAny(gt, det, tol) ==
    LET gts == gt.end_line - gt.start_line + 1
        ds == det.end_line - det.start_line + 1
        iou == calculate_iou(gt.start_line, gt.end_line, det.start_line, det.end_line)
        min_iou == Max(200000, 600000 - (35 * Log10Micro(gts)) \div 100)
        max_det == Min(gts * 5 + 15, gts * 3 + 60)
        center_dev2 == IF (gt.start_line + gt.end_line) >= (det.start_line + det.end_line)
                       THEN (gt.start_line + gt.end_line) - (det.start_line + det.end_line)
                       ELSE (det.start_line + det.end_line) - (gt.start_line + gt.end_line)
        max_shift2 == gts * 3 + 10
    IN  IF gt.filename # det.filename THEN FALSE
        ELSE IF ~ lines_overlap(gt.start_line, gt.end_line,
                                det.start_line, det.end_line, tol) THEN FALSE
        ELSE IF gts = 1 THEN TRUE
        ELSE /\ IouAtLeastMicro(iou, min_iou)
             /\ ds <= max_det
             /\ center_dev2 <= max_shift2
             /\ ds >= 1

strict_match_v3(gt, det, tol) ==
    LET gts == gt.end_line - gt.start_line + 1
        ds == det.end_line - det.start_line + 1
        iou == calculate_iou(gt.start_line, gt.end_line, det.start_line, det.end_line)
        min_iou == Max(200000, 600000 - (35 * Log10Micro(gts)) \div 100)
        max_det == Min(gts * 5 + 15, gts * 3 + 60)
        \* twice center_dev and twice max_shift
        center_dev2 == IF (gt.start_line + gt.end_line) >= (det.start_line + det.end_line)
                       THEN (gt.start_line + gt.end_line) - (det.start_line + det.end_line)
                       ELSE (det.start_line + det.end_line) - (gt.start_line + gt.end_line)
        max_shift2 == gts * 3 + 10
    IN  IF gt.filename # det.filename THEN FALSE
        ELSE IF ~ lines_overlap(gt.start_line, gt.end_line,
                                det.start_line, det.end_line, tol) THEN FALSE
        ELSE IF gts = 1 THEN ds <= 7 /\ IouAtLeastMicro(iou, 150000)
        ELSE /\ IouAtLeastMicro(iou, min_iou)
             /\ ds <= max_det
             /\ center_dev2 <= max_shift2
             /\ ds >= 1

\* in units of 10^-6
adaptive_iou_threshold(gt_lines) ==
    IF gt_lines <= 1 THEN 850000
    ELSE Max(300000, 1000000 - (28 * Log10Micro(gt_lines)) \div 100)

\* main: report_thresholds=[0.25, 0.50, 0.75], in percent; sorted(set(...))
report_thresholds == <<25, 50, 75>>

-----------------------------------------------------------------------------
(* generate_evaluation_v3.py: evaluate_fault_detection *)

gt_ids == {gt_errors[i].id : i \in 1..Len(gt_errors)}

\* detection_count[id]
detection_count(id) ==
    Cardinality({i \in 1..Len(det_errors) :
                   det_errors[i].detected_id # "FP" /\ det_errors[i].detected_id = id})

DetectionTp(d) ==
    [detected_id |-> det_errors[d].detected_id, filename |-> det_errors[d].filename,
     det_lines |-> <<det_errors[d].start_line, det_errors[d].end_line>>, det |-> d]

DetectionFp(d, note) ==
    [detected_id |-> det_errors[d].detected_id, filename |-> det_errors[d].filename,
     det_lines |-> <<det_errors[d].start_line, det_errors[d].end_line>>, det |-> d,
     note |-> note]

IsDetectionTp_Repeated(d, used_gt_ids) ==
    /\ ~ (det_errors[d].detected_id = "FP" \/ det_errors[d].detected_id \notin gt_ids)
    /\ detection_count(det_errors[d].detected_id) >= 1

IsDetectionTp_AnyId(d, used_gt_ids) ==
    /\ det_errors[d].detected_id # "FP"
    /\ det_errors[d].detected_id \notin used_gt_ids
    /\ detection_count(det_errors[d].detected_id) >= 1

\* the test that makes a finding a TP of the detection metric
IsDetectionTp(d, used_gt_ids) ==
    /\ ~ (det_errors[d].detected_id = "FP" \/ det_errors[d].detected_id \notin gt_ids)
    /\ det_errors[d].detected_id \notin used_gt_ids
    /\ detection_count(det_errors[d].detected_id) >= 1

\* for det in det_errors: one pass of the loop body
DetectionDet ==
    /\ script = "generate_evaluation_v3"
    /\ pc = "detection"
    /\ idx <= Len(det_errors)
    /\ IF IsDetectionTp(idx, used)
       THEN /\ detection' = [detection EXCEPT !.tp = Append(@, DetectionTp(idx))]
            /\ used' = used \cup {det_errors[idx].detected_id}
       ELSE /\ detection' = [detection EXCEPT !.fp = Append(@, DetectionFp(idx,
                  IF det_errors[idx].detected_id = "FP"
                     \/ det_errors[idx].detected_id \notin gt_ids
                  THEN "" ELSE "duplicate_detection"))]
            /\ used' = used
    /\ idx' = idx + 1
    /\ UNCHANGED <<othervars, inputs, callvars, mainvars, pc, files_left, current_det, remaining_old, remaining_strict,
                   classic, strict, fixed_results, adaptive>>

\* the FN loop and the return; main then calls match_errors_localization, whose
\* first lines build valid_dets and the empty containers
DetectionReturn ==
    /\ script = "generate_evaluation_v3"
    /\ pc = "detection"
    /\ idx > Len(det_errors)
    /\ detection' = [detection EXCEPT
                       !.fn = FnEntries(SelectSeq(gt_errors, LAMBDA g : g.id \notin used))]
    /\ current_det' = SelectSeq(Positions(det_errors),
                                LAMBDA i : det_errors[i].detected_id # "FP")
    /\ idx' = 1
    /\ used' = {}
    /\ pc' = "localization"
    /\ UNCHANGED <<othervars, inputs, callvars, mainvars, files_left, remaining_old, remaining_strict,
                   classic, strict, fixed_results, adaptive>>

-----------------------------------------------------------------------------
(* generate_evaluation_v3.py: match_errors_localization *)

\* key in gt_lookup
InGtLookup(key) ==
    \E i \in 1..Len(gt_errors) : <<gt_errors[i].filename, gt_errors[i].id>> = key

\* gt_lookup[key]: a later row with the same key replaces an earlier one
gt_lookup(key) ==
    LET is == {i \in 1..Len(gt_errors) : <<gt_errors[i].filename, gt_errors[i].id>> = key}
    IN  gt_errors[CHOOSE i \in is : \A j \in is : j <= i]

LocEntry(gt, d) ==
    [gt_id |-> gt.id, filename |-> gt.filename,
     gt_lines |-> <<gt.start_line, gt.end_line>>,
     det_lines |-> <<det_errors[d].start_line, det_errors[d].end_line>>,
     detected_id |-> det_errors[d].detected_id, det |-> d]

LocFp(d, note) ==
    [filename |-> det_errors[d].filename,
     det_lines |-> <<det_errors[d].start_line, det_errors[d].end_line>>,
     detected_id |-> det_errors[d].detected_id, det |-> d, note |-> note]

\* what one valid detection adds to the strict lists
LocStrictAfter(res, eligible, classic_ok, strict_ok, gt, d) ==
    IF ~ eligible THEN [res EXCEPT !.fp = Append(@, LocFp(d, "duplicate_or_wrong_id"))]
    ELSE IF classic_ok /\ strict_ok THEN [res EXCEPT !.tp = Append(@, LocEntry(gt, d))]
    ELSE [res EXCEPT !.fp = Append(@, LocFp(d, "bad_localization"))]

\* what one valid detection adds to the classic lists
LocClassicAfter(res, eligible, classic_ok, gt, d) ==
    IF ~ eligible THEN [res EXCEPT !.fp = Append(@, LocFp(d, "duplicate_or_wrong_id"))]
    ELSE IF classic_ok THEN [res EXCEPT !.tp = Append(@, LocEntry(gt, d))]
    ELSE [res EXCEPT !.fp = Append(@, LocFp(d, "bad_localization"))]

\* for det in valid_dets: one pass of the loop body
LocDet ==
    /\ script = "generate_evaluation_v3"
    /\ pc = "localization"
    /\ idx <= Len(current_det)
    /\ LET d == current_det[idx]
           key == <<det_errors[d].filename, det_errors[d].detected_id>>
           eligible == InGtLookup(key) /\ key \notin used
           gt == gt_lookup(key)
           classic_ok == eligible /\ lines_overlap(gt.start_line, gt.end_line,
                             det_errors[d].start_line, det_errors[d].end_line, tolerance)
           strict_ok == eligible /\ strict_match_v3(gt, det_errors[d], tolerance)
       IN  /\ classic' = LocClassicAfter(classic, eligible, classic_ok, gt, d)
           /\ strict' = LocStrictAfter(strict, eligible, classic_ok, strict_ok, gt, d)
           /\ used' = IF classic_ok THEN used \cup {key} ELSE used
    /\ idx' = idx + 1
    /\ UNCHANGED <<othervars, inputs, callvars, mainvars, pc, files_left, current_det, remaining_old, remaining_strict,
                   detection, fixed_results, adaptive>>

\* FN = the ground truth whose key was not matched (both metrics use matched_gt_keys)
LocFn == FnEntries(SelectSeq(gt_errors, LAMBDA g : <<g.filename, g.id>> \notin used))

\* the detections marked "FP"
LocMarkedFp ==
    LET fps == SelectSeq(Positions(det_errors), LAMBDA i : det_errors[i].detected_id = "FP")
    IN  [k \in 1..Len(fps) |-> LocFp(fps[k], "")]

\* the two closing loops and the return; main then calls
\* match_errors_adaptive_smooth_iou, whose first lines build the containers
LocReturn ==
    /\ script = "generate_evaluation_v3"
    /\ pc = "localization"
    /\ idx > Len(current_det)
    /\ classic' = [classic EXCEPT !.fp = @ \o LocMarkedFp, !.fn = LocFn]
    /\ strict' = [strict EXCEPT !.fp = @ \o LocMarkedFp, !.fn = LocFn]
    /\ used' = {}
    /\ files_left' = AllFiles
    /\ fixed_results' = [th \in {report_thresholds[k] : k \in 1..Len(report_thresholds)}
                           |-> EmptyResult]
    /\ pc' = "adaptive"
    /\ UNCHANGED <<othervars, inputs, callvars, mainvars, current_det, idx, remaining_old, remaining_strict,
                   detection, adaptive>>

-----------------------------------------------------------------------------
(* generate_evaluation_v3.py: match_errors_adaptive_smooth_iou *)

\* gt_lookup = {gt.id: gt for gt in current_gts}
InFileLookup(current_gts, id) == \E i \in 1..Len(current_gts) : current_gts[i].id = id

FileLookup(current_gts, id) ==
    LET is == {i \in 1..Len(current_gts) : current_gts[i].id = id}
    IN  current_gts[CHOOSE i \in is : \A j \in is : j <= i]

\* pairs.append((iou, det, gt, key)) for the candidates of the file
RECURSIVE CollectPairs(_, _, _, _)
CollectPairs(cands, current_gts, f, matched) ==
    IF cands = <<>> THEN <<>>
    ELSE LET d == Head(cands)
             gt_id == det_errors[d].detected_id
             rest == CollectPairs(Tail(cands), current_gts, f, matched)
         IN  IF ~ InFileLookup(current_gts, gt_id) THEN rest
             ELSE IF <<f, gt_id>> \in matched THEN rest
             ELSE LET gt == FileLookup(current_gts, gt_id)
                  IN  <<[iou |-> calculate_iou(gt.start_line, gt.end_line,
                                   det_errors[d].start_line, det_errors[d].end_line),
                         det |-> d, gt |-> gt, key |-> <<f, gt_id>>]>> \o rest

RECURSIVE InsertPair_LaterFirst(_, _)
InsertPair_LaterFirst(s, p) ==
    IF s = <<>> THEN <<p>>
    ELSE IF ~ IouGreater(Head(s).iou, p.iou) THEN <<p>> \o s
         ELSE <<Head(s)>> \o InsertPair_LaterFirst(Tail(s), p)

\* pairs.sort(reverse=True, key=lambda x: x[0]): stable, best IoU first
RECURSIVE InsertPair(_, _)
InsertPair(s, p) ==
    IF s = <<>> THEN <<p>>
    ELSE IF IouGreater(p.iou, Head(s).iou) THEN <<p>> \o s
         ELSE <<Head(s)>> \o InsertPair(Tail(s), p)

RECURSIVE SortPairs(_)
SortPairs(s) ==
    IF s = <<>> THEN <<>>
    ELSE InsertPair(SortPairs(SubSeq(s, 1, Len(s) - 1)), s[Len(s)])

PairEntry(p) ==
    LET gt_lines == p.gt.end_line - p.gt.start_line + 1
        required_iou == adaptive_iou_threshold(gt_lines)
    IN  [filename |-> p.key[1], gt_id |-> p.gt.id,
         gt_lines |-> <<p.gt.start_line, p.gt.end_line>>,
         det_lines |-> <<det_errors[p.det].start_line, det_errors[p.det].end_line>>,
         iou |-> p.iou, required_iou |-> required_iou,
         adaptive_tp |-> IouAtLeastMicro(p.iou, required_iou),
         gt_size |-> gt_lines, det |-> p.det]

CandidateFp(f, d, note) ==
    [filename |-> f, detected_id |-> det_errors[d].detected_id,
     det_lines |-> <<det_errors[d].start_line, det_errors[d].end_line>>,
     note |-> note, det |-> d]

AdaptiveFn(f, gt) ==
    [filename |-> f, gt_id |-> gt.id, gt_lines |-> <<gt.start_line, gt.end_line>>,
     required_iou |-> adaptive_iou_threshold(gt.end_line - gt.start_line + 1)]

AssignedAfter_Swapped(res, accepted, entry) ==
    IF accepted THEN [res EXCEPT !.fp = Append(@, entry)]
    ELSE [res EXCEPT !.tp = Append(@, entry)]

\* the lists of one acceptance rule after a pair was assigned
AssignedAfter(res, accepted, entry) ==
    IF accepted THEN [res EXCEPT !.tp = Append(@, entry)]
    ELSE [res EXCEPT !.fp = Append(@, entry)]

\* globally_matched_gt.add(key)
MatchedAfter(matched, key) == matched \cup {key}

\* for iou, det, gt, key in pairs: the greedy loop
\* acc = [matched, used_dets, fixed, adaptive]
RECURSIVE Greedy(_, _)
Greedy(pairs, acc) ==
    IF pairs = <<>> THEN acc
    ELSE LET p == Head(pairs)
         IN  IF p.key \in acc.matched \/ p.det \in acc.used_dets
             THEN Greedy(Tail(pairs), acc)
             ELSE LET entry == PairEntry(p)
                  IN  Greedy(Tail(pairs),
                        [matched |-> MatchedAfter(acc.matched, p.key),
                         used_dets |-> acc.used_dets \cup {p.det},
                         fixed |-> [th \in DOMAIN acc.fixed |->
                                      AssignedAfter(acc.fixed[th],
                                                    IouAtLeastPercent(p.iou, th), entry)],
                         adaptive |-> AssignedAfter(acc.adaptive, entry.adaptive_tp, entry)])

\* the entries the three closing loops of a file add to every rule's lists
ClosingFp(f, candidates, marked_fps, used_dets, current_gts) ==
    LET unmatched == SelectSeq(candidates, LAMBDA d : d \notin used_dets)
    IN  [k \in 1..Len(unmatched) |->
           CandidateFp(f, unmatched[k],
                       IF ~ InFileLookup(current_gts, det_errors[unmatched[k]].detected_id)
                       THEN "wrong_id" ELSE "low_iou_duplicate")]
        \o [k \in 1..Len(marked_fps) |-> CandidateFp(f, marked_fps[k], "marked_as_fp")]

ClosingFn(f, current_gts, matched) ==
    LET missed == SelectSeq(current_gts, LAMBDA g : <<f, g.id>> \notin matched)
    IN  [k \in 1..Len(missed) |-> AdaptiveFn(f, missed[k])]

\* the loop body for file f, from the state <<used, fixed_results, adaptive>>:
\* [matched, fixed, adaptive] after it
AdaptiveFileResult(f) ==
    LET current_gts == gt_by_file(f)
        current_dets == det_by_file(f)
        candidates == SelectSeq(current_dets, LAMBDA d : det_errors[d].detected_id # "FP")
        marked_fps == SelectSeq(current_dets, LAMBDA d : det_errors[d].detected_id = "FP")
        pairs == SortPairs(CollectPairs(candidates, current_gts, f, used))
    IN  LET acc == Greedy(pairs, [matched |-> used, used_dets |-> {},
                                  fixed |-> fixed_results, adaptive |-> adaptive])
        IN  LET fps == ClosingFp(f, candidates, marked_fps, acc.used_dets, current_gts)
                fns == ClosingFn(f, current_gts, acc.matched)
            IN  [matched |-> acc.matched,
                 adaptive |-> [acc.adaptive EXCEPT !.fp = @ \o fps, !.fn = @ \o fns],
                 fixed |-> [th \in DOMAIN acc.fixed |->
                              [acc.fixed[th] EXCEPT !.fp = @ \o fps, !.fn = @ \o fns]]]

\* for filename in set(gt_by_file) | set(det_by_file): one pass of the loop body;
\* the set is visited in an order the code does not fix
AdaptiveFile ==
    /\ script = "generate_evaluation_v3"
    /\ pc = "adaptive"
    /\ \E f \in files_left :
         \E r \in {AdaptiveFileResult(f)} :
             /\ files_left' = files_left \ {f}
             /\ used' = r.matched
             /\ adaptive' = r.adaptive
             /\ fixed_results' = r.fixed
    /\ UNCHANGED <<othervars, inputs, callvars, mainvars, pc, current_det, idx, remaining_old, remaining_strict,
                   classic, strict, detection>>

\* result = {"fixed_0.25": ..., "fixed_0.50": ..., "fixed_0.75": ..., "adaptive": ...}
\* raises KeyError when one of the three thresholds was not requested; then the
\* debug print: mean() of no value raises StatisticsError
AdaptiveReturn ==
    /\ script = "generate_evaluation_v3"
    /\ pc = "adaptive"
    /\ files_left = {}
    /\ pc' = IF ~ ({25, 50, 75} \subseteq DOMAIN fixed_results) THEN "KeyError"
             ELSE IF /\ adaptive.tp \o adaptive.fp # <<>>
                     /\ \A k \in 1..Len(adaptive.tp \o adaptive.fp) :
                          "required_iou" \notin DOMAIN (adaptive.tp \o adaptive.fp)[k]
                  THEN "StatisticsError"
                  ELSE "done"
    /\ UNCHANGED <<othervars, inputs, callvars, mainvars, files_left, current_det, idx, remaining_old, remaining_strict,
                   classic, strict, detection, used, fixed_results, adaptive>>

-----------------------------------------------------------------------------
(* The runs *)

\* no single function call is under way
NoCall ==
    /\ call = <<>>
    /\ ret = <<>>

\* main's aggregation is not under way
NoMain ==
    /\ result_files = <<>>
    /\ processed = <<>>
    /\ agg = <<>>
    /\ results = <<>>

\* neither the best-match script nor the differential test is under way
NoOther ==
    /\ best = <<>>
    /\ disk = <<>>
    /\ locals = <<>>

\* no matching function is under way
NoMatching ==
    /\ gt_errors = <<>>
    /\ det_errors = <<>>
    /\ tolerance = 0
    /\ files_left = {}
    /\ current_det = <<>>
    /\ idx = 1
    /\ remaining_old = <<>>
    /\ remaining_strict = <<>>
    /\ classic = EmptyResult
    /\ strict = EmptyResult
    /\ detection = EmptyResult
    /\ used = {}
    /\ fixed_results = <<>>
    /\ adaptive = EmptyResult

InitBoth ==
    /\ NoOther
    /\ script = "generate_evaluation"
    /\ gt_errors \in GtLists
    /\ det_errors \in DetLists
    /\ tolerance \in Tolerances
    /\ files_left = AllFiles
    /\ pc = IF files_left = {} THEN "done" ELSE "files"
    /\ current_det = <<>>
    /\ idx = 1
    /\ remaining_old = <<>>
    /\ remaining_strict = <<>>
    /\ classic = EmptyResult
    /\ strict = EmptyResult
    /\ detection = EmptyResult
    /\ used = {}
    /\ fixed_results = <<>>
    /\ adaptive = EmptyResult
    /\ NoCall
    /\ NoMain

InitReview ==
    /\ NoOther
    /\ script = "evaluate_llm_code_review"
    /\ gt_errors \in GtLists
    /\ det_errors \in DetLists
    /\ tolerance \in Tolerances
    /\ files_left = {}
    /\ pc = "dets"
    /\ current_det = Positions(det_errors)
    /\ idx = 1
    /\ remaining_old = gt_errors
    /\ remaining_strict = gt_errors
    /\ classic = EmptyResult
    /\ strict = EmptyResult
    /\ detection = EmptyResult
    /\ used = {}
    /\ fixed_results = <<>>
    /\ adaptive = EmptyResult
    /\ NoCall
    /\ NoMain

\* main of generate_evaluation_v3.py: detection, localization, adaptive IoU on
\* the same gt_errors and det_errors
InitV3 ==
    /\ NoOther
    /\ script = "generate_evaluation_v3"
    /\ gt_errors \in GtLists
    /\ det_errors \in VerifiedDetLists
    /\ tolerance \in Tolerances
    /\ files_left = {}
    /\ pc = "detection"
    /\ current_det = <<>>
    /\ idx = 1
    /\ remaining_old = <<>>
    /\ remaining_strict = <<>>
    /\ classic = EmptyResult
    /\ strict = EmptyResult
    /\ detection = EmptyResult
    /\ used = {}
    /\ fixed_results = <<>>
    /\ adaptive = EmptyResult
    /\ NoCall
    /\ NoMain

NextBoth ==
    \/ BothStartFile
    \/ BothDet
    \/ BothEndFile
    \/ ReviewDet
    \/ ReviewReturn

NextV3 ==
    \/ DetectionDet
    \/ DetectionReturn
    \/ LocDet
    \/ LocReturn
    \/ AdaptiveFile
    \/ AdaptiveReturn

Init == InitBoth \/ InitReview \/ InitV3

Next == NextBoth \/ NextV3

\* every script
Spec == Init /\ [][Next]_vars

\* the two scripts without claimed ids
SpecBoth == (InitBoth \/ InitReview) /\ [][NextBoth]_vars

\* generate_evaluation_v3.py
SpecV3 == InitV3 /\ [][NextV3]_vars

-----------------------------------------------------------------------------
(* Metrics.  A float is kept as the fraction <<numerator, denominator>>;   *)
(* a denominator of 0 stands for a division that raised ZeroDivisionError. *)

FracAdd(a, b) == <<a[1] * b[2] + b[1] * a[2], a[2] * b[2]>>
FracMul(a, b) == <<a[1] * b[1], a[2] * b[2]>>
\* a / b
FracDiv(a, b) == <<a[1] * b[2], a[2] * b[1]>>
FracEq(a, b) == a[1] * b[2] = b[1] * a[2]
\* a > 0
FracPos(a) == a[1] > 0
Raised(a) == a[2] = 0

calculate_metrics_Unguarded(tp, fp, fn) ==
    LET precision == <<tp, tp + fp>>
        recall == IF (tp + fn) > 0 THEN <<tp, tp + fn>> ELSE <<0, 1>>
        f1 == IF Raised(precision) THEN precision
              ELSE IF FracPos(FracAdd(precision, recall))
              THEN FracDiv(FracMul(<<2, 1>>, FracMul(precision, recall)),
                           FracAdd(precision, recall))
              ELSE <<0, 1>>
    IN  [tp |-> tp, fp |-> fp, fn |-> fn,
         precision |-> precision, recall |-> recall, f1 |-> f1]

\* the same in generate_evaluation.py, evaluate_llm_code_review.py and
\* generate_evaluation_v3.py
calculate_metrics(tp, fp, fn) ==
    LET precision == IF (tp + fp) > 0 THEN <<tp, tp + fp>> ELSE <<0, 1>>
        recall == IF (tp + fn) > 0 THEN <<tp, tp + fn>> ELSE <<0, 1>>
        f1 == IF FracPos(FracAdd(precision, recall))
              THEN FracDiv(FracMul(<<2, 1>>, FracMul(precision, recall)),
                           FracAdd(precision, recall))
              ELSE <<0, 1>>
    IN  [tp |-> tp, fp |-> fp, fn |-> fn,
         precision |-> precision, recall |-> recall, f1 |-> f1]

\* docs/experiment/scripts/run_evaluation.py, main: the scores of one run
\* from len(tp), len(fp) and len(ground_truth)
run_evaluation_scores(tp, fp, ground_truth) ==
    LET precision == IF (tp > 0 \/ fp > 0) THEN <<tp, tp + fp>> ELSE <<0, 1>>
        recall == <<tp, ground_truth>>
        f1 == IF Raised(recall) THEN recall
              ELSE IF FracPos(FracAdd(precision, recall))
              THEN FracDiv(FracMul(<<2, 1>>, FracMul(precision, recall)),
                           FracAdd(precision, recall))
              ELSE <<0, 1>>
    IN  [precision |-> precision, recall |-> recall, f1 |-> f1]

\* what a call that computed the scores m hands back
Outcome(m) ==
    IF Raised(m.precision) \/ Raised(m.recall) \/ Raised(m.f1)
    THEN [exc |-> "ZeroDivisionError", val |-> <<>>]
    ELSE [exc |-> "none", val |-> m]

Returned(v) == [exc |-> "none", val |-> v]

-----------------------------------------------------------------------------
(* Single calls of the functions *)

\* bounds of the arguments
MaxGtSize == 24
MaxDetSize == 135
MaxCallStart == 6
MaxCallTol == 3
MaxOverlapLine == 6
MaxCount == 4

CallRanges == {r \in (1..MaxOverlapLine) \X (1..MaxOverlapLine) : r[1] <= r[2]}

\* <<gt start, gt size, det start, det size, tol>>
StrictMatchArgs ==
    (1..MaxCallStart) \X (1..MaxGtSize) \X (1..MaxCallStart) \X (1..MaxDetSize)
        \X (0..MaxCallTol)

\* <<gt_start, gt_end, det_start, det_end, tolerance>>
OverlapArgs ==
    {<<g[1], g[2], d[1], d[2], t>> : g \in CallRanges, d \in CallRanges, t \in 0..MaxCallTol}

IouArgs == {<<g[1], g[2], d[1], d[2]>> : g \in CallRanges, d \in CallRanges}

MetricsArgs == (0..MaxCount) \X (0..MaxCount) \X (0..MaxCount)

\* <<len(tp), len(fp), len(ground_truth)>>: evaluate returns tp as a subset of
\* the ground truth
ScoreArgs == {a \in MetricsArgs : a[1] <= a[3]}

ThreeScripts == {"generate_evaluation", "evaluate_llm_code_review", "generate_evaluation_v3"}

GtOf(a) == [id |-> GtId(1), filename |-> "A", start_line |-> a[1],
            end_line |-> a[1] + a[2] - 1]
DetOf(a) == [filename |-> "A", start_line |-> a[3], end_line |-> a[3] + a[4] - 1,
             detected_id |-> GtId(1)]

Calling(sc, fn) ==
    /\ pc = "call"
    /\ script = sc
    /\ call.fn = fn

Return(v) ==
    /\ ret' = v
    /\ pc' = "returned"
    /\ UNCHANGED <<othervars, inputs, call, matchvars, v3vars, mainvars>>

CallStrictMatch ==
    /\ Calling("generate_evaluation", "strict_match")
    /\ Return(Returned(strict_match(GtOf(call.args), DetOf(call.args), call.args[5])))

CallStrictMatchV3 ==
    /\ Calling("generate_evaluation_v3", "strict_match")
    /\ Return(Returned(strict_match_v3(GtOf(call.args), DetOf(call.args), call.args[5])))

CallLinesOverlap ==
    /\ pc = "call"
    /\ call.fn = "lines_overlap"
    /\ Return(Returned(lines_overlap(call.args[1], call.args[2], call.args[3],
                                     call.args[4], call.args[5])))

CallCalculateIou ==
    /\ Calling("generate_evaluation_v3", "calculate_iou")
    /\ Return(Returned(calculate_iou(call.args[1], call.args[2], call.args[3],
                                     call.args[4])))

CallAdaptiveIouThreshold ==
    /\ Calling("generate_evaluation_v3", "adaptive_iou_threshold")
    /\ Return(Returned(adaptive_iou_threshold(call.args[1])))

CallCalculateMetrics ==
    /\ pc = "call"
    /\ call.fn = "calculate_metrics"
    /\ Return(Outcome(calculate_metrics(call.args[1], call.args[2], call.args[3])))

RunEvaluationScores ==
    /\ Calling("run_evaluation", "main")
    /\ Return(Outcome(run_evaluation_scores(call.args[1], call.args[2], call.args[3])))

InitCalls ==
    /\ NoOther
    /\ \/ /\ script \in {"generate_evaluation", "generate_evaluation_v3"}
          /\ call \in [fn : {"strict_match"}, args : StrictMatchArgs]
       \/ /\ script \in ThreeScripts
          /\ call \in [fn : {"lines_overlap"}, args : OverlapArgs]
       \/ /\ script = "generate_evaluation_v3"
          /\ call \in [fn : {"calculate_iou"}, args : IouArgs]
       \/ /\ script = "generate_evaluation_v3"
          /\ call \in [fn : {"adaptive_iou_threshold"}, args : {<<n>> : n \in 1..MaxGtSize}]
       \/ /\ script \in ThreeScripts
          /\ call \in [fn : {"calculate_metrics"}, args : MetricsArgs]
       \/ /\ script = "run_evaluation"
          /\ call \in [fn : {"main"}, args : ScoreArgs]
    /\ ret = <<>>
    /\ pc = "call"
    /\ NoMatching
    /\ NoMain

NextCalls ==
    \/ CallStrictMatch
    \/ CallStrictMatchV3
    \/ CallLinesOverlap
    \/ CallCalculateIou
    \/ CallAdaptiveIouThreshold
    \/ CallCalculateMetrics
    \/ RunEvaluationScores

\* one call of one function on arguments within the bounds
SpecCalls == InitCalls /\ [][NextCalls]_vars

-----------------------------------------------------------------------------
(* main: aggregation over the runs.  The accumulators of main are kept in  *)
(* agg.counts and agg.f1 under the names they have in the source; every    *)
(* one is updated by the same statements.                                  *)

MaxRuns == 2

\* detect_category of the result files
Categories == {"Opencode (gpt)", "Raw LLM (gpt)"}

\* sorted(...) of the categories
CategoryOrder == <<"Opencode (gpt)", "Raw LLM (gpt)">>

\* --model; "" when the option is not given
ModelFilters == {"", "gpt", "opencode", "raw"}

\* not (args.model and args.model.lower() not in category.lower())
Passes(model, category) ==
    \/ model = ""
    \/ model = "gpt"
    \/ model = "opencode" /\ category = "Opencode (gpt)"
    \/ model = "raw" /\ category = "Raw LLM (gpt)"

\* <<len(tp), len(fp), len(fn)>> of one evaluation of one run
RunCounts == {<<0, 1, 1>>, <<1, 3, 0>>}

\* the accumulators, in the order of the rows of the final table
MetricOrder ==
    IF script = "generate_evaluation"
    THEN <<"overall_classic", "overall_strict">>
    ELSE <<"agg_det", "agg_loc_c", "agg_loc_s",
           "agg_iou[0.25]", "agg_iou[0.50]", "agg_iou[0.75]">>

MetricNames == {MetricOrder[k] : k \in 1..Len(MetricOrder)}

\* the "Typ" column
TypOrder ==
    IF script = "generate_evaluation"
    THEN <<"Klassisch", "Streng">>
    ELSE <<"Fault Detection", "Localization (Loose Overlap)", "Localization (Strict IoU)",
           "Localization IoU >= 0.25", "Localization IoU >= 0.50", "Localization IoU >= 0.75">>

\* dict.get(k, default)
Get(d, k, default) == IF k \in DOMAIN d THEN d[k] ELSE default

\* d[k] = v
Put(d, k, v) == [x \in DOMAIN d \cup {k} |-> IF x = k THEN v ELSE d[x]]

\* defaultdict(lambda: {"tp": 0, "fp": 0, "fn": 0, "runs": 0})
NoCounts == [tp |-> 0, fp |-> 0, fn |-> 0, runs |-> 0]

Accumulate_Overwrite(overall, category, c) ==
    LET o == Get(overall, category, NoCounts)
    IN  Put(overall, category, [tp |-> c[1], fp |-> c[2], fn |-> c[3],
                                runs |-> o.runs + 1])

\* overall[category]["tp"] += len(tp), ... ["runs"] += 1
Accumulate(overall, category, c) ==
    LET o == Get(overall, category, NoCounts)
    IN  Put(overall, category, [tp |-> o.tp + c[1], fp |-> o.fp + c[2],
                                fn |-> o.fn + c[3], runs |-> o.runs + 1])

\* f1_per_run.setdefault(category, []).append(calculate_metrics(...)["f1"])
AppendF1(per_run, category, c) ==
    Put(per_run, category,
        Append(Get(per_run, category, <<>>), calculate_metrics(c[1], c[2], c[3]).f1))

RECURSIVE GCD(_, _)
GCD(a, b) == IF b = 0 THEN a ELSE GCD(b, a % b)

\* a fraction in lowest terms
Norm(a) ==
    IF a[1] = 0 THEN <<0, 1>>
    ELSE LET g == GCD(IF a[1] < 0 THEN -a[1] ELSE a[1], a[2])
         IN  <<a[1] \div g, a[2] \div g>>

FracSub(a, b) == Norm(<<a[1] * b[2] - b[1] * a[2], a[2] * b[2]>>)

RECURSIVE FracSum(_)
FracSum(s) == IF s = <<>> THEN <<0, 1>> ELSE Norm(FracAdd(Head(s), FracSum(Tail(s))))

\* statistics.mean
Mean(s) == Norm(FracDiv(FracSum(s), <<Len(s), 1>>))

\* the square of statistics.stdev: the sample variance
Variance(s) ==
    LET mu == Mean(s)
        sq == [i \in 1..Len(s) |-> Norm(FracMul(FracSub(s[i], mu), FracSub(s[i], mu)))]
    IN  Norm(FracDiv(FracSum(sq), <<Len(s) - 1, 1>>))

\* round(x, 3) and the format :.3f, in thousandths; a tie goes to the even digit
Round3(a) ==
    LET n == 1000 * a[1]
        q == n \div a[2]
        r == n % a[2]
    IN  IF 2 * r > a[2] \/ (2 * r = a[2] /\ q % 2 = 1) THEN q + 1 ELSE q

\* round(sqrt(v), 3) in thousandths
Round3Sqrt(v) ==
    CHOOSE r \in 0..1000 :
        /\ r = 0 \/ (2 * r - 1) * (2 * r - 1) * v[2] <= 4000000 * v[1]
        /\ 4000000 * v[1] < (2 * r + 1) * (2 * r + 1) * v[2]

\* one row of the final table; cat and metric tell which category and
\* accumulator the row is about
Row(cat, k) ==
    LET data == agg.counts[MetricOrder[k]][cat]
        m == calculate_metrics(data.tp, data.fp, data.fn)
        f1_list == Get(agg.f1[MetricOrder[k]], cat, <<>>)
    IN  [Kategorie |-> IF k = 1 THEN cat ELSE "",
         Typ |-> TypOrder[k],
         Runs |-> agg.counts[MetricOrder[1]][cat].runs,
         TP |-> m.tp, FP |-> m.fp, FN |-> m.fn,
         Precision |-> Round3(m.precision),
         Recall |-> Round3(m.recall),
         F1 |-> IF f1_list # <<>> THEN Round3(Mean(f1_list)) ELSE 0,
         F1_Std |-> IF Len(f1_list) > 1 THEN Round3Sqrt(Variance(f1_list)) ELSE 0,
         cat |-> cat, metric |-> MetricOrder[k]]

\* for cat in sorted(...): the rows of the categories
RECURSIVE Rows(_)
Rows(cats) ==
    IF cats = <<>> THEN <<>>
    ELSE [k \in 1..Len(MetricOrder) |-> Row(Head(cats), k)] \o Rows(Tail(cats))

\* for json_file in result_files: a run that passes --model is evaluated and
\* added to every accumulator
MainRun ==
    /\ pc = "main"
    /\ result_files # <<>>
    /\ Passes(call.args[1], Head(result_files))
    /\ \E outcome \in [MetricNames -> RunCounts] :
         /\ agg' = [counts |-> [m \in MetricNames |->
                                  Accumulate(agg.counts[m], Head(result_files), outcome[m])],
                    f1 |-> [m \in MetricNames |->
                              AppendF1(agg.f1[m], Head(result_files), outcome[m])]]
         /\ processed' = Append(processed, [category |-> Head(result_files),
                                            outcome |-> outcome])
    /\ result_files' = Tail(result_files)
    /\ UNCHANGED <<othervars, inputs, callvars, matchvars, v3vars, pc, results>>

\* ... continue
MainSkip ==
    /\ pc = "main"
    /\ result_files # <<>>
    /\ ~ Passes(call.args[1], Head(result_files))
    /\ result_files' = Tail(result_files)
    /\ UNCHANGED <<othervars, inputs, callvars, matchvars, v3vars, pc, processed, agg, results>>

\* generate_evaluation_v3.py: match_errors_adaptive_smooth_iou raises
\* StatisticsError on a run and main ends there
MainRaise ==
    /\ pc = "main"
    /\ script = "generate_evaluation_v3"
    /\ result_files # <<>>
    /\ Passes(call.args[1], Head(result_files))
    /\ pc' = "StatisticsError"
    /\ UNCHANGED <<othervars, inputs, callvars, matchvars, v3vars, mainvars>>

\* the final table
MainReport ==
    /\ pc = "main"
    /\ result_files = <<>>
    /\ results' = Rows(SelectSeq(CategoryOrder,
                                 LAMBDA c : c \in DOMAIN agg.counts[MetricOrder[1]]))
    /\ pc' = "reported"
    /\ UNCHANGED <<othervars, inputs, callvars, matchvars, v3vars, result_files, processed, agg>>

InitMain ==
    /\ NoOther
    /\ script \in {"generate_evaluation", "generate_evaluation_v3"}
    /\ call \in [fn : {"main"}, args : {<<m>> : m \in ModelFilters}]
    /\ ret = <<>>
    /\ result_files \in UNION {[1..n -> Categories] : n \in 1..MaxRuns}
    /\ processed = <<>>
    /\ agg = [counts |-> [m \in MetricNames |-> <<>>], f1 |-> [m \in MetricNames |-> <<>>]]
    /\ results = <<>>
    /\ pc = "main"
    /\ NoMatching

NextMain ==
    \/ MainRun
    \/ MainSkip
    \/ MainRaise
    \/ MainReport

\* main of generate_evaluation.py and of generate_evaluation_v3.py
SpecMain == InitMain /\ [][NextMain]_vars

-----------------------------------------------------------------------------
(* evaluate_tp_fp_fn_best_match.py: the greedy 1:1 matching of one run.     *)
(* The findings carry a filename, a description and integer lines; the      *)
(* similarity of a description to a ground-truth description is an input.   *)

MaxSim == 2

\* the values util.cos_sim takes, in ascending order
Similarities == 1..MaxSim

has_overlap(a_start, a_end, b_start, b_end, tol) ==
    ~ (a_end + tol < b_start \/ a_start - tol > b_end)

\* entry["_pred_id"]: filename, start_line and end_line joined by "_"
pred_id(d) ==
    <<det_errors[d].filename, det_errors[d].start_line, det_errors[d].end_line>>

\* gt_by_basename[basename]: the rows of that file, in row order
gt_by_basename(f) ==
    SelectSeq(Positions(gt_errors), LAMBDA g : gt_errors[g].filename = f)

\* the rows of the finding's file that has_overlap accepts at tolerance 2
valid_gt_idxs(d) ==
    SelectSeq(gt_by_basename(det_errors[d].filename),
              LAMBDA g : has_overlap(det_errors[d].start_line, det_errors[d].end_line,
                                     gt_errors[g].start_line, gt_errors[g].end_line, 2))

\* the candidates of finding d, one for each valid row
CandidatesOf(sim, d) ==
    [k \in 1..Len(valid_gt_idxs(d)) |->
        [entry |-> d,
         pred_id |-> pred_id(d),
         gt_id |-> gt_errors[valid_gt_idxs(d)[k]].id,
         similarity |-> sim[d][valid_gt_idxs(d)[k]]]]

\* run_candidates before the sort: finding by finding in input order
RECURSIVE CandidatesUpTo(_, _)
CandidatesUpTo(sim, n) ==
    IF n = 0 THEN <<>>
    ELSE CandidatesUpTo(sim, n - 1) \o CandidatesOf(sim, n)

RECURSIVE InsertCandidate(_, _)
InsertCandidate(s, c) ==
    IF s = <<>> THEN <<c>>
    ELSE IF c.similarity > Head(s).similarity THEN <<c>> \o s
         ELSE <<Head(s)>> \o InsertCandidate(Tail(s), c)

\* run_candidates.sort(key=similarity, reverse=True): stable, highest first
RECURSIVE SortCandidates(_)
SortCandidates(s) ==
    IF s = <<>> THEN <<>>
    ELSE InsertCandidate(SortCandidates(SubSeq(s, 1, Len(s) - 1)), s[Len(s)])

\* the locals before the greedy loop
BestStart(sim) ==
    [similarity |-> sim,
     run_candidates |-> SortCandidates(CandidatesUpTo(sim, Len(det_errors))),
     assigned_gts |-> {},
     used_predictions |-> {},
     tp_list |-> <<>>,
     fp_list |-> <<>>,
     fn_list |-> <<>>]

\* one pass of "for cand in run_candidates"
GreedyCandidate ==
    /\ script = "evaluate_tp_fp_fn_best_match"
    /\ pc = "greedy"
    /\ idx <= Len(best.run_candidates)
    /\ LET cand == best.run_candidates[idx]
       IN  IF cand.gt_id \in best.assigned_gts \/ cand.pred_id \in best.used_predictions
           THEN best' = [best EXCEPT
                            !.fp_list = Append(@, [det |-> cand.entry]),
                            !.used_predictions = @ \cup {cand.pred_id}]
           ELSE best' = [best EXCEPT
                            !.assigned_gts = @ \cup {cand.gt_id},
                            !.used_predictions = @ \cup {cand.pred_id},
                            !.tp_list = Append(@, [det |-> cand.entry, gt_id |-> cand.gt_id])]
    /\ idx' = idx + 1
    /\ UNCHANGED <<inputs, callvars, mainvars, v3vars, pc, files_left, current_det,
                   remaining_old, remaining_strict, classic, strict, disk, locals>>

\* the findings no candidate has used become FP; fn_list is every row not assigned
GreedyReturn ==
    /\ script = "evaluate_tp_fp_fn_best_match"
    /\ pc = "greedy"
    /\ idx > Len(best.run_candidates)
    /\ LET unused == SelectSeq(Positions(det_errors),
                               LAMBDA d : pred_id(d) \notin best.used_predictions)
           missed == SelectSeq(Positions(gt_errors),
                               LAMBDA g : gt_errors[g].id \notin best.assigned_gts)
       IN  best' = [best EXCEPT
                        !.fp_list = @ \o [k \in 1..Len(unused) |-> [det |-> unused[k]]],
                        !.fn_list = [k \in 1..Len(missed) |-> [gt_id |-> gt_errors[missed[k]].id]]]
    /\ pc' = "done"
    /\ UNCHANGED <<inputs, callvars, mainvars, v3vars, matchvars, disk, locals>>

InitBest ==
    /\ script = "evaluate_tp_fp_fn_best_match"
    /\ gt_errors \in GtLists
    /\ det_errors \in DetLists
    /\ tolerance = 2
    /\ best \in {BestStart(sim) :
                   sim \in [1..Len(det_errors) -> [1..Len(gt_errors) -> Similarities]]}
    /\ pc = "greedy"
    /\ idx = 1
    /\ files_left = {}
    /\ current_det = <<>>
    /\ remaining_old = <<>>
    /\ remaining_strict = <<>>
    /\ classic = EmptyResult
    /\ strict = EmptyResult
    /\ detection = EmptyResult
    /\ used = {}
    /\ fixed_results = <<>>
    /\ adaptive = EmptyResult
    /\ disk = <<>>
    /\ locals = <<>>
    /\ NoCall
    /\ NoMain

NextBest ==
    \/ GreedyCandidate
    \/ GreedyReturn

\* the greedy matching of one run of evaluate_tp_fp_fn_best_match.py
SpecBest == InitBest /\ [][NextBest]_vars

-----------------------------------------------------------------------------
(* 2_run_differential_testing.py: main.  disk holds, for the two projects,  *)
(* where their src/test/java comes from, and which backups exist; a state   *)
(* backup holds the test directory the project had when it was taken.       *)

\* src/test/java of a project: as the project has it ("project"), none in the
\* project ("absent"), copied in by set_tests from a backup, or removed by a
\* set_tests that failed
TestDirs == {"project", "absent", "BACKUP_ORIGINAL", "BACKUP_FULL", "removed"}

\* the test names a Gradle run reports
TestNames == {"t1", "t2"}

\* the line coverage get_coverage_from_report returns, in percent
Coverages == {0, 50, 80}

\* the four phases: set_tests(proj, source), then the test run
Phases ==
    <<[proj |-> "CLEAN", source |-> "BACKUP_ORIGINAL"],
      [proj |-> "BUGGY", source |-> "BACKUP_ORIGINAL"],
      [proj |-> "CLEAN", source |-> "BACKUP_FULL"],
      [proj |-> "BUGGY", source |-> "BACKUP_FULL"]>>

\* both state backups exist: the early return of backup_project_state, and what
\* copytree in restore_project_state needs
StateBackupsExist(d) ==
    d.BACKUP_CLEAN_STATE # "missing" /\ d.BACKUP_BUGGY_STATE # "missing"

backup_project_state(d) ==
    IF StateBackupsExist(d) THEN d
    ELSE [d EXCEPT !.BACKUP_CLEAN_STATE = d.CLEAN, !.BACKUP_BUGGY_STATE = d.BUGGY]

restore_project_state_Skipped(d) == d

\* rmtree(proj), copytree(backup, proj) for both projects
restore_project_state(d) ==
    [d EXCEPT !.CLEAN = d.BACKUP_CLEAN_STATE, !.BUGGY = d.BACKUP_BUGGY_STATE]

ensure_test_backups(d) ==
    [d EXCEPT !.BACKUP_ORIGINAL = @ \/ d.CLEAN \notin {"absent", "removed"},
              !.BACKUP_FULL = @ \/ d.BUGGY \notin {"absent", "removed"}]

\* rmtree(target) when it exists, then copytree(source, target), which raises
\* when the source does not exist
set_tests(d, proj, source) ==
    IF d[source] THEN [d EXCEPT ![proj] = source]
    ELSE [d EXCEPT ![proj] = IF @ = "absent" THEN "absent" ELSE "removed"]

\* the four backups are deleted; a deletion that fails is printed, not raised
full_cleanup(d) ==
    [d EXCEPT !.BACKUP_ORIGINAL = FALSE, !.BACKUP_FULL = FALSE,
              !.BACKUP_CLEAN_STATE = "missing", !.BACKUP_BUGGY_STATE = "missing"]

DiffOthers == <<inputs, callvars, mainvars, matchvars, v3vars, best>>

\* line 148
DiffBackup ==
    /\ pc = "backup_project_state"
    /\ disk' = backup_project_state(disk)
    /\ pc' = "restore_project_state"
    /\ UNCHANGED <<DiffOthers, locals>>

\* line 149
DiffRestore ==
    /\ pc = "restore_project_state"
    /\ disk' = restore_project_state(disk)
    /\ pc' = "ensure_test_backups"
    /\ UNCHANGED <<DiffOthers, locals>>

\* line 150, and the two assignments before the try
DiffEnsure ==
    /\ pc = "ensure_test_backups"
    /\ disk' = ensure_test_backups(disk)
    /\ locals' = [locals EXCEPT !.cov_original = 0, !.cov_with_llm = 0, !.phase = 1]
    /\ pc' = "phases"
    /\ UNCHANGED DiffOthers

\* one phase inside the try: set_tests, the Gradle run and the coverage report.
\* subprocess.run raises when ./gradlew cannot be started, copytree when the
\* source is missing; both leave the try for the finally block
DiffPhase ==
    /\ pc = "phases"
    /\ LET ph == Phases[locals.phase]
       IN  /\ disk' = set_tests(disk, ph.proj, ph.source)
           /\ \/ /\ disk[ph.source]
                 /\ \E executed \in SUBSET TestNames, cov \in Coverages :
                      locals' = [locals EXCEPT
                                    !.executed_A = IF locals.phase = 1 THEN executed ELSE @,
                                    !.executed_C = IF locals.phase = 3 THEN executed ELSE @,
                                    !.cov_original = IF locals.phase = 1 THEN cov ELSE @,
                                    !.cov_with_llm = IF locals.phase = 3 THEN cov ELSE @,
                                    !.phase = IF @ < Len(Phases) THEN @ + 1 ELSE @]
                 /\ pc' = IF locals.phase < Len(Phases) THEN "phases" ELSE "results"
              \/ /\ locals' = [locals EXCEPT !.pending = "exception"]
                 /\ pc' = "finally"
    /\ UNCHANGED DiffOthers

\* the rest of the try: the early return when no LLM test was executed, the
\* classification and the report, whose relative gain divides by cov_original
DiffResults ==
    /\ pc = "results"
    /\ LET llm_tests == locals.executed_C \ locals.executed_A
           coverage_gain == locals.cov_with_llm - locals.cov_original
       IN  locals' = [locals EXCEPT !.pending =
                         IF llm_tests = {} THEN "return"
                         ELSE IF coverage_gain > 0 /\ locals.cov_original = 0
                              THEN "exception"
                              ELSE "none"]
    /\ pc' = "finally"
    /\ UNCHANGED <<DiffOthers, disk>>

\* finally: restore_project_state(); copytree raises when a state backup is missing,
\* and the exception leaves main before full_cleanup
DiffFinally ==
    /\ pc = "finally"
    /\ IF StateBackupsExist(disk)
       THEN /\ disk' = restore_project_state(disk)
            /\ locals' = [locals EXCEPT !.called = Append(@, "restore_project_state")]
            /\ pc' = "full_cleanup"
       ELSE /\ locals' = [locals EXCEPT !.pending = "exception"]
            /\ pc' = "exited"
            /\ UNCHANGED disk
    /\ UNCHANGED DiffOthers

\* finally: full_cleanup(); then main ends: by the closing prints, by the return
\* or by the pending exception
DiffCleanup ==
    /\ pc = "full_cleanup"
    /\ disk' = full_cleanup(disk)
    /\ locals' = [locals EXCEPT !.called = Append(@, "full_cleanup")]
    /\ pc' = "exited"
    /\ UNCHANGED DiffOthers

\* a first run, or a run after one that was killed: before its state backups were
\* complete or after they were deleted (the projects are as they were), or during
\* its phases (both state backups exist, the projects are in any state)
InitDiff ==
    /\ script = "2_run_differential_testing"
    /\ pc = "backup_project_state"
    /\ \E c \in {"project", "absent"}, b \in {"project", "absent"} :
         \/ disk \in [CLEAN : {c}, BUGGY : {b},
                      BACKUP_ORIGINAL : BOOLEAN, BACKUP_FULL : BOOLEAN,
                      BACKUP_CLEAN_STATE : {"missing", c}, BACKUP_BUGGY_STATE : {"missing", b}]
         \/ disk \in [CLEAN : TestDirs \ {"project", "absent"},
                      BUGGY : TestDirs \ {"project", "absent"},
                      BACKUP_ORIGINAL : BOOLEAN, BACKUP_FULL : BOOLEAN,
                      BACKUP_CLEAN_STATE : {c}, BACKUP_BUGGY_STATE : {b}]
    /\ locals = [phase |-> 0, executed_A |-> {}, executed_C |-> {}, cov_original |-> 0,
                 cov_with_llm |-> 0, pending |-> "none", called |-> <<>>]
    /\ best = <<>>
    /\ NoMatching
    /\ NoCall
    /\ NoMain

NextDiff ==
    \/ DiffBackup
    \/ DiffRestore
    \/ DiffEnsure
    \/ DiffPhase
    \/ DiffResults
    \/ DiffFinally
    \/ DiffCleanup

\* main of 2_run_differential_testing.py; it is one sequential process, and every
\* statement of it that can be executed is executed
SpecDiff == InitDiff /\ [][NextDiff]_vars /\ WF_vars(NextDiff)

-----------------------------------------------------------------------------
(* Properties *)

\* how many entries of a result list name ground-truth id `id`
GtCount(list, id) == Cardinality({k \in 1..Len(list) : list[k].gt_id = id})

\* how many entries of a result list are about finding d
DetCount(list, d) == Cardinality({k \in 1..Len(list) : list[k].det = d})

PartitionCounts(res) ==
    /\ Len(res.tp) + Len(res.fn) = Len(gt_errors)
    /\ Len(res.tp) + Len(res.fp) = Len(det_errors)

\* the localization results of generate_evaluation_v3.py are complete
LocalizationDone == pc \in {"adaptive", "done", "KeyError", "StatisticsError"}

\* C1: when match_errors_both has returned, every ground-truth defect is in
\* exactly one of classic TP (by gt_id) and classic FN, so it is matched by at
\* most one finding, and every finding is in exactly one of classic TP and
\* classic FP.
ClassicExactlyOnce ==
    (script \in {"generate_evaluation", "evaluate_llm_code_review"} /\ pc = "done") =>
        /\ \A g \in 1..Len(gt_errors) :
             GtCount(classic.tp, gt_errors[g].id) + GtCount(classic.fn, gt_errors[g].id) = 1
        /\ \A d \in 1..Len(det_errors) :
             DetCount(classic.tp, d) + DetCount(classic.fp, d) = 1

\* a run where a second finding overlaps a defect that an earlier finding consumed
ClassicExactlyOnceWitness ==
    /\ script = "generate_evaluation"
    /\ pc = "done"
    /\ Len(gt_errors) = 2
    /\ Len(classic.fn) = 1
    /\ \E k \in 1..Len(classic.tp), j \in 1..Len(classic.fp) :
         /\ classic.tp[k].filename = classic.fp[j].filename
         /\ lines_overlap(classic.tp[k].gt_lines[1], classic.tp[k].gt_lines[2],
                          classic.fp[j].det_lines[1], classic.fp[j].det_lines[2], tolerance)

\* C2: when match_errors_both has returned, every ground-truth defect is in
\* exactly one of strict TP (by gt_id) and strict FN.
StrictExactlyOnce ==
    (script \in {"generate_evaluation", "evaluate_llm_code_review"} /\ pc = "done") =>
        \A g \in 1..Len(gt_errors) :
            GtCount(strict.tp, gt_errors[g].id) + GtCount(strict.fn, gt_errors[g].id) = 1

\* C3: when match_errors_both has returned, |TP| + |FN| is the number of
\* defects and |TP| + |FP| the number of findings, for the classic and for the
\* strict triple.
BothPartitionCounts ==
    (script \in {"generate_evaluation", "evaluate_llm_code_review"} /\ pc = "done") =>
        PartitionCounts(classic) /\ PartitionCounts(strict)

\* a finding that is a classic TP and a strict FP
BothPartitionCountsWitness ==
    /\ script \in {"generate_evaluation", "evaluate_llm_code_review"}
    /\ pc = "done"
    /\ \E k \in 1..Len(classic.tp), j \in 1..Len(strict.fp) :
         classic.tp[k].det = strict.fp[j].det

\* no two TP entries of a list share the ground-truth id or the finding
OneToOne(tp, IdOf(_)) ==
    \A k, j \in 1..Len(tp) :
        k # j => IdOf(tp[k]) # IdOf(tp[j]) /\ tp[k].det # tp[j].det

\* C4: in evaluate_fault_detection's TP list and in the TP list of every
\* triple of match_errors_adaptive_smooth_iou (each fixed threshold, adaptive) no
\* ground-truth id and no finding appears twice.
AtMostOneMatch ==
    /\ OneToOne(detection.tp, LAMBDA e : e.detected_id)
    /\ OneToOne(adaptive.tp, LAMBDA e : e.gt_id)
    /\ \A th \in DOMAIN fixed_results : OneToOne(fixed_results[th].tp, LAMBDA e : e.gt_id)

\* two findings of the defect's file claim the same id; one of them is matched
AtMostOneMatchWitness ==
    /\ pc = "done"
    /\ Len(det_errors) = 2
    /\ det_errors[1].detected_id = det_errors[2].detected_id
    /\ det_errors[1].filename = det_errors[2].filename
    /\ Len(detection.tp) = 1
    /\ Len(fixed_results[25].tp) = 1
    /\ Len(adaptive.tp) = 1

\* C5: when match_errors_localization has returned, |TP| + |FN| is the number
\* of defects and |TP| + |FP| the number of findings, for the classic and for
\* the strict triple.
LocalizationPartitionCounts ==
    (script = "generate_evaluation_v3" /\ LocalizationDone) =>
        PartitionCounts(classic) /\ PartitionCounts(strict)

\* C6: when match_errors_adaptive_smooth_iou has returned, |TP| + |FN| is the
\* number of defects and |TP| + |FP| the number of findings in every triple.
AdaptivePartitionCounts ==
    (script = "generate_evaluation_v3" /\ pc = "done") =>
        /\ PartitionCounts(adaptive)
        /\ \A th \in DOMAIN fixed_results : PartitionCounts(fixed_results[th])

\* C7: every strict TP entry (gt_id, finding lines) of match_errors_both and of
\* match_errors_localization is a classic TP entry of the same call, so there
\* are at most as many strict as classic TPs, and every classic FP is a strict FP.
StrictWithinClassic ==
    /\ \A k \in 1..Len(strict.tp) : \E j \in 1..Len(classic.tp) :
          /\ classic.tp[j].gt_id = strict.tp[k].gt_id
          /\ classic.tp[j].det_lines = strict.tp[k].det_lines
          /\ classic.tp[j].filename = strict.tp[k].filename
    /\ Len(strict.tp) <= Len(classic.tp)
    /\ \A j \in 1..Len(classic.fp) : \E k \in 1..Len(strict.fp) :
          strict.fp[k].det = classic.fp[j].det

\* a call with a strict TP and with a classic TP that is no strict TP
StrictWithinClassicWitness ==
    /\ pc = "done"
    /\ Len(strict.tp) = 1
    /\ Len(classic.tp) = 2

\* C8: when evaluate_fault_detection has returned, a finding is a TP iff its
\* claimed id is a ground-truth id and no earlier finding claims that id;
\* every other finding ("FP", absent id, id claimed before) is an FP.
DetectionFirstClaimant ==
    (script = "generate_evaluation_v3" /\ pc # "detection") =>
        \A d \in 1..Len(det_errors) :
            LET first == /\ det_errors[d].detected_id \in gt_ids
                         /\ \A e \in 1..(d - 1) :
                              det_errors[e].detected_id # det_errors[d].detected_id
            IN  /\ DetCount(detection.tp, d) = (IF first THEN 1 ELSE 0)
                /\ DetCount(detection.fp, d) = (IF first THEN 0 ELSE 1)

\* two findings claim the same ground-truth id: the first is the TP, the second
\* the duplicate
DetectionFirstClaimantWitness ==
    /\ script = "generate_evaluation_v3"
    /\ pc # "detection"
    /\ Len(det_errors) = 2
    /\ det_errors[1].detected_id = det_errors[2].detected_id
    /\ Len(detection.tp) = 1
    /\ detection.tp[1].det = 1
    /\ Len(detection.fp) = 1
    /\ detection.fp[1].note = "duplicate_detection"

\* the file of the ground-truth defect with this id
FileOfId(id) == {gt_errors[g].filename : g \in {h \in 1..Len(gt_errors) : gt_errors[h].id = id}}

\* C9: no TP entry of any strategy (classic/strict of match_errors_both and of
\* match_errors_localization, evaluate_fault_detection) pairs a finding with a
\* defect of another file.
NoCrossFileTp ==
    /\ \A k \in 1..Len(classic.tp) :
          classic.tp[k].filename = det_errors[classic.tp[k].det].filename
    /\ \A k \in 1..Len(strict.tp) :
          strict.tp[k].filename = det_errors[strict.tp[k].det].filename
    /\ \A k \in 1..Len(detection.tp) :
          FileOfId(detection.tp[k].detected_id) = {det_errors[detection.tp[k].det].filename}

\* C10: one defect and one finding of the same file with the same line range,
\* at tolerance 1: match_errors_both of generate_evaluation.py returns classic
\* 1 TP / 0 FP / 0 FN and strict 1 TP / 0 FP / 0 FN.
ExactMatchAccepted ==
    ( /\ script = "generate_evaluation"
      /\ pc = "done"
      /\ tolerance = 1
      /\ Len(gt_errors) = 1
      /\ Len(det_errors) = 1
      /\ det_errors[1].filename = gt_errors[1].filename
      /\ det_errors[1].start_line = gt_errors[1].start_line
      /\ det_errors[1].end_line = gt_errors[1].end_line ) =>
        /\ Len(classic.tp) = 1 /\ classic.fp = <<>> /\ classic.fn = <<>>
        /\ Len(strict.tp) = 1 /\ strict.fp = <<>> /\ strict.fn = <<>>

\* the ground-truth defect with id `id`
GtOfId(id) == gt_errors[CHOOSE i \in 1..Len(gt_errors) : gt_errors[i].id = id]

OverlapsAtTolerance(gt, det) ==
    /\ gt.filename = det.filename
    /\ lines_overlap(gt.start_line, gt.end_line, det.start_line, det.end_line, tolerance)

OverlapsNone(d) ==
    \A i \in 1..Len(gt_errors) : ~ OverlapsAtTolerance(gt_errors[i], det_errors[d])

\* C12: when match_errors_both has returned, every classic and every strict TP
\* pairs a finding with a defect of the same file that lines_overlap accepts at
\* the given tolerance, and a finding that overlaps no defect of its file is a
\* FP (and no TP) of the classic and of the strict result.
NoTpWithoutOverlap ==
    pc = "done" =>
        /\ \A k \in 1..Len(classic.tp) :
             OverlapsAtTolerance(GtOfId(classic.tp[k].gt_id), det_errors[classic.tp[k].det])
        /\ \A k \in 1..Len(strict.tp) :
             OverlapsAtTolerance(GtOfId(strict.tp[k].gt_id), det_errors[strict.tp[k].det])
        /\ \A d \in 1..Len(det_errors) :
             OverlapsNone(d) =>
                 /\ DetCount(classic.fp, d) = 1 /\ DetCount(classic.tp, d) = 0
                 /\ DetCount(strict.fp, d) = 1 /\ DetCount(strict.tp, d) = 0

\* a run with a defect and a finding of the same file that do not overlap, next
\* to a finding that is matched
NoTpWithoutOverlapWitness ==
    /\ pc = "done"
    /\ script = "generate_evaluation"
    /\ Len(classic.tp) = 1
    /\ Len(strict.tp) = 1
    /\ \E d \in 1..Len(det_errors) :
         /\ OverlapsNone(d)
         /\ \E i \in 1..Len(gt_errors) : gt_errors[i].filename = det_errors[d].filename
         /\ DetCount(classic.fp, d) = 1

\* C13: when the same (file, line-range) finding is given twice to
\* match_errors_both, at most one of the two copies is a classic TP and the
\* other one is a classic FP, whatever the ground truth.
DuplicateFindingOnce ==
    pc = "done" =>
        \A d1, d2 \in 1..Len(det_errors) :
            (d1 # d2 /\ det_errors[d1] = det_errors[d2]) =>
                /\ DetCount(classic.tp, d1) + DetCount(classic.tp, d2) <= 1
                /\ DetCount(classic.fp, d1) + DetCount(classic.fp, d2) >= 1

\* no TP, no FP, and every ground-truth defect exactly once among the FN
AllFn(res) ==
    /\ res.tp = <<>>
    /\ res.fp = <<>>
    /\ Len(res.fn) = Len(gt_errors)
    /\ \A i \in 1..Len(gt_errors) : GtCount(res.fn, gt_errors[i].id) = 1

\* C19: with an empty findings list every strategy returns no TP, no FP and a
\* FN list that holds every ground-truth defect exactly once: match_errors_both
\* (classic and strict), evaluate_fault_detection, match_errors_localization
\* and, for each of its four triples, match_errors_adaptive_smooth_iou.
EmptyFindingsAllFn ==
    det_errors = <<>> =>
        /\ (script \in {"generate_evaluation", "evaluate_llm_code_review"} /\ pc = "done")
              => (AllFn(classic) /\ AllFn(strict))
        /\ (script = "generate_evaluation_v3" /\ pc # "detection") => AllFn(detection)
        /\ (script = "generate_evaluation_v3" /\ LocalizationDone)
              => (AllFn(classic) /\ AllFn(strict))
        /\ (script = "generate_evaluation_v3"
                /\ pc \notin {"detection", "localization", "adaptive"})
              => /\ pc = "done"
                 /\ AllFn(adaptive)
                 /\ \A k \in 1..Len(report_thresholds) :
                      /\ report_thresholds[k] \in DOMAIN fixed_results
                      /\ AllFn(fixed_results[report_thresholds[k]])

\* the three evaluations of generate_evaluation_v3.py have returned on no
\* finding and two defects of two files
EmptyFindingsAllFnWitness ==
    /\ script = "generate_evaluation_v3"
    /\ pc = "done"
    /\ det_errors = <<>>
    /\ Len(gt_errors) = 2
    /\ gt_errors[1].filename # gt_errors[2].filename
    /\ Len(adaptive.fn) = 2

-----------------------------------------------------------------------------
(* Single calls *)

IsReturned(fn) == pc = "returned" /\ call.fn = fn

\* the size cap of the findings for a defect of gt_size lines
SizeCap(gt_size) == Min(gt_size * 5 + 15, gt_size * 3 + 60)

\* C11: strict_match of generate_evaluation.py and of generate_evaluation_v3.py
\* rejects every finding of the defect's file whose size exceeds
\* min(gt_size*5 + 15, gt_size*3 + 60), whatever the defect's size, also when
\* the finding overlaps the defect (a classic match).
ShotgunRejected ==
    (IsReturned("strict_match") /\ call.args[4] > SizeCap(call.args[2]))
        => ret.val = FALSE

\* a finding above the cap that overlaps the defect and passes the IoU test
\* of generate_evaluation.py is rejected for its size alone
ShotgunRejectedWitness ==
    /\ IsReturned("strict_match")
    /\ script = "generate_evaluation"
    /\ call.args = <<4, 2, 1, 26, 3>>
    /\ lines_overlap(4, 5, 1, 26, 3)
    /\ ret.val = FALSE

\* C14: lines_overlap(gt_start, gt_end, det_start, det_end, tolerance) is true
\* if and only if [gt_start - tolerance, gt_end + tolerance], the ground truth
\* widened by the tolerance, and [det_start, det_end], the finding as it is,
\* share a line.
OverlapIffExpandedGt ==
    IsReturned("lines_overlap") =>
        (ret.val <=> /\ call.args[1] - call.args[5] <= call.args[4]
                     /\ call.args[3] <= call.args[2] + call.args[5])

\* C15: calculate_iou gives the same value when the two ranges are swapped,
\* a value between 0 and 1, 0 exactly when the ranges share no line and 1
\* exactly when the ranges are the same.
IouSymmetricNormalised ==
    IsReturned("calculate_iou") =>
        LET a == call.args
            iou == ret.val
        IN  /\ FracEq(iou, calculate_iou(a[3], a[4], a[1], a[2]))
            /\ iou[2] > 0 /\ 0 <= iou[1] /\ iou[1] <= iou[2]
            /\ (iou[1] = 0 <=> (a[2] < a[3] \/ a[4] < a[1]))
            /\ (iou[1] = iou[2] <=> (a[1] = a[3] /\ a[2] = a[4]))

\* two ranges of different sizes that share some lines but not all
IouSymmetricNormalisedWitness ==
    /\ IsReturned("calculate_iou")
    /\ call.args = <<1, 4, 3, 5>>
    /\ ret.val = <<2, 5>>

\* C16: adaptive_iou_threshold never grows with the defect's size: the
\* threshold of every smaller size s1 >= 1 is at least the threshold returned
\* for s2, the single-line size s1 = 1 included.
AdaptiveThresholdMonotone ==
    IsReturned("adaptive_iou_threshold") =>
        \A s1 \in 1..(call.args[1] - 1) : adaptive_iou_threshold(s1) >= ret.val

Zero == <<0, 1>>
One == <<1, 1>>

\* C17: calculate_metrics(tp, fp, fn) raises nothing on non-negative counts;
\* precision is tp/(tp+fp), or 0 when tp+fp = 0; recall is tp/(tp+fn), or 0
\* when tp+fn = 0; f1 is the harmonic mean 2tp/(2tp+fp+fn) of the two, or 0
\* when both are 0; so (0,0,0) scores 0, 0, 0 and (n,0,0) scores 1, 1, 1.
MetricsTotal ==
    IsReturned("calculate_metrics") =>
        LET tp == call.args[1]
            fp == call.args[2]
            fn == call.args[3]
            m == ret.val
        IN  /\ ret.exc = "none"
            /\ FracEq(m.precision, IF tp + fp = 0 THEN Zero ELSE <<tp, tp + fp>>)
            /\ FracEq(m.recall, IF tp + fn = 0 THEN Zero ELSE <<tp, tp + fn>>)
            /\ FracEq(m.f1, IF tp = 0 THEN Zero ELSE <<2 * tp, 2 * tp + fp + fn>>)
            /\ (tp = 0 /\ fp = 0 /\ fn = 0) =>
                   (FracEq(m.precision, Zero) /\ FracEq(m.recall, Zero) /\ FracEq(m.f1, Zero))
            /\ (tp > 0 /\ fp = 0 /\ fn = 0) =>
                   (FracEq(m.precision, One) /\ FracEq(m.recall, One) /\ FracEq(m.f1, One))

\* the call on (0, 0, 0), where every denominator is 0, has returned zeros
MetricsTotalWitness ==
    /\ IsReturned("calculate_metrics")
    /\ call.args = <<0, 0, 0>>
    /\ ret.exc = "none"
    /\ FracEq(ret.val.f1, Zero)
    /\ ret.val.precision[2] # 0

\* C18: with an empty ground-truth list the scoring of a run raises nothing
\* and gives recall 0, in calculate_metrics (tp = fn = 0) as well as in main of
\* docs/experiment/scripts/run_evaluation.py (len(ground_truth) = 0).
EmptyGroundTruthRecall ==
    /\ (IsReturned("calculate_metrics") /\ call.args[1] = 0 /\ call.args[3] = 0) =>
            (ret.exc = "none" /\ FracEq(ret.val.recall, Zero))
    /\ (IsReturned("main") /\ script = "run_evaluation" /\ call.args[3] = 0) =>
            (ret.exc = "none" /\ FracEq(ret.val.recall, Zero))

-----------------------------------------------------------------------------
(* main *)

\* the processed runs of a category, in order
RunsOf(cat) == SelectSeq(processed, LAMBDA r : r.category = cat)

\* the sum of component j of the counts that accumulator m got from the runs
RECURSIVE SumOf(_, _, _)
SumOf(runs, m, j) ==
    IF runs = <<>> THEN 0 ELSE Head(runs).outcome[m][j] + SumOf(Tail(runs), m, j)

\* the F1 of one run: 2tp / (2tp + fp + fn), 0 without a TP
PerRunF1(c) == IF c[1] = 0 THEN Zero ELSE <<2 * c[1], 2 * c[1] + c[2] + c[3]>>

RatioOrZero(n, d) == IF d = 0 THEN Zero ELSE <<n, d>>

\* C20: in main, after any number of runs, each accumulator holds for each
\* category the sums of the tp, fp and fn of exactly the runs of that category
\* and the number of those runs, and the per-run F1 list holds one value per
\* run; in the final table precision and recall come from the summed counts,
\* F1 is the mean of the per-run F1 values, and the deviation is 0 for one run.
AggregationSums ==
    pc \in {"main", "reported", "StatisticsError"} =>
        /\ \A m \in MetricNames : \A cat \in Categories :
             LET runs == RunsOf(cat)
             IN  IF runs = <<>>
                 THEN cat \notin DOMAIN agg.counts[m] /\ cat \notin DOMAIN agg.f1[m]
                 ELSE /\ agg.counts[m][cat] = [tp |-> SumOf(runs, m, 1), fp |-> SumOf(runs, m, 2),
                                               fn |-> SumOf(runs, m, 3), runs |-> Len(runs)]
                      /\ Len(agg.f1[m][cat]) = Len(runs)
                      /\ \A i \in 1..Len(runs) :
                           FracEq(agg.f1[m][cat][i], PerRunF1(runs[i].outcome[m]))
        /\ pc = "reported" =>
             /\ \A m \in MetricNames : \A cat \in Categories :
                  Cardinality({k \in 1..Len(results) :
                                 results[k].cat = cat /\ results[k].metric = m})
                    = IF RunsOf(cat) = <<>> THEN 0 ELSE 1
             /\ \A k \in 1..Len(results) :
                  LET row == results[k]
                      runs == RunsOf(row.cat)
                      tp == SumOf(runs, row.metric, 1)
                      fp == SumOf(runs, row.metric, 2)
                      fn == SumOf(runs, row.metric, 3)
                  IN  /\ row.Runs = Len(runs)
                      /\ row.TP = tp /\ row.FP = fp /\ row.FN = fn
                      /\ row.Precision = Round3(RatioOrZero(tp, tp + fp))
                      /\ row.Recall = Round3(RatioOrZero(tp, tp + fn))
                      /\ row.F1 = Round3(Mean([i \in 1..Len(runs) |->
                                                 PerRunF1(runs[i].outcome[row.metric])]))
                      /\ (Len(runs) = 1 => row.F1_Std = 0)

\* two runs of one category with different counts: the table's F1 is the mean
\* 0.2 of the runs' F1 values 0 and 0.4, not the F1 2/7 of the summed counts
AggregationSumsWitness ==
    /\ pc = "reported"
    /\ script = "generate_evaluation"
    /\ Len(processed) = 2
    /\ \E k \in 1..Len(results) :
         /\ results[k].Typ = "Klassisch"
         /\ results[k].Runs = 2
         /\ results[k].TP = 1 /\ results[k].FP = 4 /\ results[k].FN = 1
         /\ results[k].Precision = 200
         /\ results[k].Recall = 500
         /\ results[k].F1 = 200
         /\ results[k].F1_Std = 283

-----------------------------------------------------------------------------
(* generate_evaluation_v3.py, continued *)

\* C21: match_errors_adaptive_smooth_iou raises nothing, whatever the ground
\* truth and the findings are (also when every finding carries the id "FP" or
\* an id that is not in the ground truth): it returns a TP/FP/FN triple for
\* each requested threshold and for the adaptive rule.
AdaptiveNeverRaises ==
    script = "generate_evaluation_v3" =>
        /\ pc \notin {"KeyError", "StatisticsError"}
        /\ pc = "done" =>
             \A k \in 1..Len(report_thresholds) : report_thresholds[k] \in DOMAIN fixed_results

\* C22: in generate_evaluation_v3.py the finding that
\* match_errors_localization records as the classic TP of a ground-truth id is
\* the finding that evaluate_fault_detection records as the TP of that id, the
\* first claimant in input order, also when an earlier claimant fails the
\* overlap test.
LocalizationWithinDetection ==
    (script = "generate_evaluation_v3" /\ LocalizationDone) =>
        \A k \in 1..Len(classic.tp) : \E j \in 1..Len(detection.tp) :
            /\ detection.tp[j].det = classic.tp[k].det
            /\ detection.tp[j].detected_id = classic.tp[k].gt_id

-----------------------------------------------------------------------------
(* All matching functions *)

GreedyPartition ==
    (script = "evaluate_tp_fp_fn_best_match" /\ pc = "done") =>
        /\ \A d \in 1..Len(det_errors) :
              DetCount(best.tp_list, d) + DetCount(best.fp_list, d) = 1
        /\ Len(best.tp_list) + Len(best.fp_list) = Len(det_errors)
        /\ \A g \in 1..Len(gt_errors) : GtCount(best.tp_list, gt_errors[g].id) <= 1

Claimants(g) ==
    {d \in 1..Len(det_errors) :
        det_errors[d].filename = g.filename /\ det_errors[d].detected_id = g.id}

IouOf(g, d) ==
    calculate_iou(g.start_line, g.end_line, det_errors[d].start_line, det_errors[d].end_line)

\* the claimant with the highest IoU, the earliest of the input among equal ones
BestClaimant(g) ==
    CHOOSE d \in Claimants(g) :
        \A e \in Claimants(g) :
            \/ IouGreater(IouOf(g, d), IouOf(g, e))
            \/ (FracEq(IouOf(g, d), IouOf(g, e)) /\ d <= e)

\* the entries of a list that assign defect g
AssignedTo(list, g) ==
    {k \in 1..Len(list) : "gt_id" \in DOMAIN list[k] /\ list[k].gt_id = g.id}

\* in the lists of one acceptance rule defect g is assigned once, to its best
\* claimant, and every other claimant is a duplicate FP
BestClaimantOnly(res, g) ==
    /\ Cardinality(AssignedTo(res.tp, g)) + Cardinality(AssignedTo(res.fp, g)) = 1
    /\ \A k \in AssignedTo(res.tp, g) : res.tp[k].det = BestClaimant(g)
    /\ \A k \in AssignedTo(res.fp, g) : res.fp[k].det = BestClaimant(g)
    /\ \A d \in Claimants(g) \ {BestClaimant(g)} :
          /\ DetCount(res.tp, d) = 0
          /\ \E k \in 1..Len(res.fp) :
                /\ res.fp[k].det = d
                /\ "note" \in DOMAIN res.fp[k]
                /\ res.fp[k].note = "low_iou_duplicate"
          /\ DetCount(res.fp, d) = 1

\* C26: in match_errors_adaptive_smooth_iou a defect claimed by several findings of
\* its file goes to the claimant with the highest IoU, the earliest in input order
\* among equal ones; every other claimant is a FP under every fixed threshold and
\* under the adaptive rule
BestIouClaimantWins ==
    (script = "generate_evaluation_v3" /\ pc = "done") =>
        \A i \in 1..Len(gt_errors) :
            Claimants(gt_errors[i]) # {} =>
                /\ BestClaimantOnly(adaptive, gt_errors[i])
                /\ \A th \in DOMAIN fixed_results :
                      BestClaimantOnly(fixed_results[th], gt_errors[i])

\* two claimants of one defect, the second of the input with the higher IoU, the
\* first a duplicate FP
BestIouClaimantWinsWitness ==
    /\ script = "generate_evaluation_v3"
    /\ pc = "done"
    /\ Len(gt_errors) >= 1
    /\ Claimants(gt_errors[1]) = {1, 2}
    /\ IouGreater(IouOf(gt_errors[1], 2), IouOf(gt_errors[1], 1))
    /\ DetCount(adaptive.tp, 2) = 1
    /\ DetCount(adaptive.fp, 1) = 1

\* twice the distance between the centre of the defect and the centre of the
\* finding of a strict_match call
CentreDistance2(a) ==
    LET gt2 == 2 * a[1] + a[2] - 1
        det2 == 2 * a[3] + a[4] - 1
    IN  IF gt2 >= det2 THEN gt2 - det2 ELSE det2 - gt2

\* C27: when strict_match of generate_evaluation_v3.py accepts, the centre of the
\* finding is at most gt_size*1.5 + 5 lines from the centre of the defect, also when
\* a single-line defect is accepted by the early branch (ds <= 7 and iou >= 0.15)
CentreWithinShift ==
    (IsReturned("strict_match") /\ script = "generate_evaluation_v3" /\ ret.val = TRUE)
        => CentreDistance2(call.args) <= 3 * call.args[2] + 10

\* a single-line defect accepted by the early branch although the finding's centre
\* is off the defect's line
CentreWithinShiftWitness ==
    /\ IsReturned("strict_match")
    /\ script = "generate_evaluation_v3"
    /\ call.args[2] = 1
    /\ call.args[4] = 6
    /\ CentreDistance2(call.args) = 5
    /\ ret.val = TRUE

\* the overlap and the union of the finding of a strict_match call with its
\* single-line defect widened by max(tol, 2) lines on each side
WidenedOverlap(a) ==
    LET tol == Max(a[5], 2)
        gs == Max(1, a[1] - tol)
        ge == a[1] + tol
        de == a[3] + a[4] - 1
    IN  [overlap |-> Min(ge, de) - Max(gs, a[3]) + 1,
         union |-> Max(ge, de) - Min(gs, a[3]) + 1]

\* C28: for a defect of one line strict_match of generate_evaluation.py accepts a
\* lower IoU, 0.15 instead of 0.30: a finding of the defect's file within the size
\* limits whose IoU with the widened defect is at least 0.15 and below 0.30 is accepted
SingleLineLowerIou ==
    ( /\ IsReturned("strict_match")
      /\ script = "generate_evaluation"
      /\ call.args[2] = 1
      /\ call.args[4] <= 8
      /\ WidenedOverlap(call.args).overlap * 100 >= 15 * WidenedOverlap(call.args).union
      /\ WidenedOverlap(call.args).overlap * 100 < 30 * WidenedOverlap(call.args).union )
        => ret.val = TRUE

\* C29: in match_errors_adaptive_smooth_iou the TP entries of a fixed threshold are
\* TP entries of every lower fixed threshold, the FN list is the same under every
\* fixed threshold and under the adaptive rule, and |TP| + |FP| is the same under
\* every threshold
ThresholdsNested ==
    script = "generate_evaluation_v3" =>
        \A t1 \in DOMAIN fixed_results :
            /\ fixed_results[t1].fn = adaptive.fn
            /\ \A t2 \in DOMAIN fixed_results :
                  /\ Len(fixed_results[t1].tp) + Len(fixed_results[t1].fp)
                       = Len(fixed_results[t2].tp) + Len(fixed_results[t2].fp)
                  /\ t1 < t2 =>
                       \A k \in 1..Len(fixed_results[t2].tp) :
                           \E j \in 1..Len(fixed_results[t1].tp) :
                               fixed_results[t1].tp[j] = fixed_results[t2].tp[k]

\* a call that has returned with a pair accepted at 0.25 and rejected at 0.75, and
\* a missed defect
ThresholdsNestedWitness ==
    /\ script = "generate_evaluation_v3"
    /\ pc = "done"
    /\ Len(fixed_results[25].tp) = 1
    /\ Len(fixed_results[75].tp) = 0
    /\ Len(fixed_results[75].fp) >= 1
    /\ Len(adaptive.fn) = 1

\* main has ended after restore_project_state and then full_cleanup, and no
\* project holds a test directory that set_tests put in place or removed
EndedRestored ==
    /\ pc = "exited"
    /\ locals.called = <<"restore_project_state", "full_cleanup">>
    /\ disk.CLEAN \in {"project", "absent"}
    /\ disk.BUGGY \in {"project", "absent"}

\* C30: once the phases of main of 2_run_differential_testing.py have started,
\* restore_project_state and then full_cleanup are eventually executed, whether the
\* phases complete, return early or raise, and when main has ended no test
\* directory that set_tests replaced is left in place
RestoredOnEveryExit ==
    (script = "2_run_differential_testing" /\ pc = "phases") ~> EndedRestored

\* main has ended by an exception raised in the third phase, after CLEAN and BUGGY
\* got other tests, and both were restored
RestoredOnEveryExitWitness ==
    /\ script = "2_run_differential_testing"
    /\ EndedRestored
    /\ locals.pending = "exception"
    /\ locals.phase = 3
    /\ disk.CLEAN = "project"
    /\ disk.BUGGY = "project"

====
